---- MODULE Spec2Model ----
(***************************************************************************)
(* Inbox metadata store of common_lib: ingest, send (copy), delete, the    *)
(* last-viewed store and the paged query over both SQLite files.           *)
(*                                                                         *)
(* Text is modelled as a sequence of one-character strings, byte counts as *)
(* a pair (g, b) standing for g * 2^30 + b, an ISO timestamp as the text   *)
(* of its day number (one clock tick is one JST day), a UUID as the next   *)
(* value of a counter.  A path under a user's root is a record             *)
(* [area, kind, day, id, name].                                            *)
(***************************************************************************)
EXTENDS Integers, Sequences, FiniteSets, TLC

VARIABLES now,       \* the wall clock (JST day number)
          nextId,    \* the next value uuid.uuid4() returns
          items,     \* items[u]: inbox_items of u's inbox_items.db, item_id -> row
          files,     \* files[u]: every regular file under u's root, path -> size
          lvStatus,  \* lvStatus[u]: state of u's _meta/last_viewed.db file
          lvRows,    \* lvRows[u]: the rows of table last_viewed of that file
          sendLog,   \* lines of <inbox_root>/_meta/send_log.jsonl
          op,        \* the call in progress (its position and locals)
          last,      \* what the last finished call returned or raised
          other,     \* the call in progress in a second process
          otherLast, \* what the second process's last call returned or raised
          legacy,    \* table inbox_items of a catalog file an older version left
          arg,       \* the argument of a stand-alone function call
          ret,       \* <<>> before that call returns, <<value>> after
          sess,      \* sessions.db and the calls of the sampler in progress
          session_state \* st.session_state of the page that shows the file picker

\* the variables of the inbox and those of the stand-alone function calls
inbox == <<now, nextId, items, files, lvStatus, lvRows, sendLog, op, last, other, otherLast, legacy>>
others == <<sess, session_state>>
aux == <<arg, ret, others>>

vars == <<now, nextId, items, files, lvStatus, lvRows, sendLog, op, last, other, otherLast, legacy, arg, ret, sess, session_state>>

----------------------------------------------------------------------------
(* Bounds of the model *)

MaxItems == 2      \* item ids uuid4 hands out
MaxTime == 2       \* days the clock runs through
DbFileBytes == 4096   \* size of a SQLite file once its schema exists
ThumbBytes == 512     \* size of a generated WEBP thumbnail
PreviewBytes == 256   \* size of a generated preview file (p001.png, preview.pdf)

Users == {"alice", "bob"}
Ids == 1..MaxItems

----------------------------------------------------------------------------
(* Byte counts: [g, b] is g * GiB + b with 0 <= b < GiB *)

GiB == 1073741824

Bytes(g, b) == [g |-> g, b |-> b]

BAdd(x, y) ==
  LET s == x.b + y.b
  IN  IF s >= GiB THEN [g |-> x.g + y.g + 1, b |-> s - GiB]
                  ELSE [g |-> x.g + y.g, b |-> s]

BGt(x, y) == x.g > y.g \/ (x.g = y.g /\ x.b > y.b)

QUOTA_BYTES_DEFAULT == Bytes(5, 0)

quota_bytes_for_user(sub) == QUOTA_BYTES_DEFAULT

----------------------------------------------------------------------------
(* Text *)

UpperAlpha == <<"A","B","C","D","E","F","G","H","I","J","K","L","M",
                "N","O","P","Q","R","S","T","U","V","W","X","Y","Z">>
LowerAlpha == <<"a","b","c","d","e","f","g","h","i","j","k","l","m",
                "n","o","p","q","r","s","t","u","v","w","x","y","z">>

LowerChar(c) ==
  IF \E i \in DOMAIN UpperAlpha : UpperAlpha[i] = c
  THEN LowerAlpha[CHOOSE i \in DOMAIN UpperAlpha : UpperAlpha[i] = c]
  ELSE c

Lower(s) == [i \in DOMAIN s |-> LowerChar(s[i])]

\* str.strip() and the regex class \s: the white space of Unicode, of which
\* the texts of the model use these ("U+3000" is the full-width space)
WhiteSpace == {" ", "\t", "\n", "U+3000"}

RECURSIVE LStrip(_)
LStrip(s) == IF s # <<>> /\ Head(s) \in WhiteSpace THEN LStrip(Tail(s)) ELSE s

RECURSIVE RStrip(_)
RStrip(s) ==
  IF s # <<>> /\ s[Len(s)] \in WhiteSpace THEN RStrip(SubSeq(s, 1, Len(s) - 1)) ELSE s

Strip(s) == RStrip(LStrip(s))

\* str.rfind: the last index of c in s, 0 when absent
RFind(s, c) ==
  IF \E i \in DOMAIN s : s[i] = c
  THEN CHOOSE i \in DOMAIN s : s[i] = c /\ \A j \in DOMAIN s : s[j] = c => j <= i
  ELSE 0

\* the days of the clock as ISO texts; their text order is their time order
DigitChar == <<"1","2","3","4","5","6","7","8","9">>
Iso(t) == <<DigitChar[t]>>
\* the characters of the model's texts, in code point order
CharOrder == <<" ", "\"", "%", ".", "1","2","3","4","5","6","7","8","9">>
              \o UpperAlpha \o <<"[", "]", "_">> \o LowerAlpha
Code(c) == CHOOSE i \in DOMAIN CharOrder : CharOrder[i] = c

RECURSIVE TextLess(_, _)
TextLess(a, b) ==
  IF b = <<>> THEN FALSE
  ELSE IF a = <<>> THEN TRUE
  ELSE IF Head(a) = Head(b) THEN TextLess(Tail(a), Tail(b))
  ELSE Code(Head(a)) < Code(Head(b))

TextGe(a, b) == ~TextLess(a, b)

----------------------------------------------------------------------------
(* inbox_common.utils *)

\* PurePath.suffix of the name
Suffix(name) ==
  LET i == RFind(name, ".")
  IN  IF 1 < i /\ i < Len(name) THEN SubSeq(name, i, Len(name)) ELSE <<>>

ExtPdf == {<<".","p","d","f">>}
ExtWord == {<<".","d","o","c","x">>, <<".","d","o","c">>}
ExtExcel == {<<".","x","l","s","x">>, <<".","x","l","s","m">>,
             <<".","c","s","v">>, <<".","t","s","v">>}
ExtPpt == {<<".","p","p","t","x">>, <<".","p","p","t">>}
ExtText == {<<".","t","x","t">>, <<".","m","d">>, <<".","l","o","g">>,
            <<".","j","s","o","n">>, <<".","t","e","x">>}
ExtImage == {<<".","p","n","g">>, <<".","j","p","g">>, <<".","j","p","e","g">>,
             <<".","w","e","b","p">>, <<".","g","i","f">>, <<".","b","m","p">>,
             <<".","t","i","f","f">>, <<".","t","i","f">>}

detect_kind_CaseSensitive(filename) ==
  LET ext == Suffix(filename)
  IN  IF ext \in ExtPdf THEN "pdf"
      ELSE IF ext \in ExtWord THEN "word"
      ELSE IF ext \in ExtExcel THEN "excel"
      ELSE IF ext = <<".","x","l","s">> THEN "other"
      ELSE IF ext \in ExtPpt THEN "ppt"
      ELSE IF ext \in ExtText THEN "text"
      ELSE IF ext \in ExtImage THEN "image"
      ELSE "other"

detect_kind(filename) ==
  LET ext == Lower(Suffix(filename))
  IN  IF ext \in ExtPdf THEN "pdf"
      ELSE IF ext \in ExtWord THEN "word"
      ELSE IF ext \in ExtExcel THEN "excel"
      ELSE IF ext = <<".","x","l","s">> THEN "other"
      ELSE IF ext \in ExtPpt THEN "ppt"
      ELSE IF ext \in ExtText THEN "text"
      ELSE IF ext \in ExtImage THEN "image"
      ELSE "other"

Kinds == {"pdf", "word", "excel", "ppt", "text", "image", "other"}

BadChars == {"/", "\\", ":", "*", "?", "\"", "<", ">", "|"}

\* the default of safe_filename's parameter max_len
DefaultMaxLen == 120

\* s[:k] of Python: the first k items, or all but the last -k when k < 0
Prefix(s, k) ==
  LET n == IF k >= 0 THEN (IF k < Len(s) THEN k ELSE Len(s))
           ELSE (IF Len(s) + k > 0 THEN Len(s) + k ELSE 0)
  IN  SubSeq(s, 1, n)

\* PurePath.stem of the name
Stem(name) == SubSeq(name, 1, Len(name) - Len(Suffix(name)))

\* str.lstrip('.')
RECURSIVE LStripDots(_)
LStripDots(s) == IF s # <<>> /\ Head(s) = "." THEN LStripDots(Tail(s)) ELSE s

\* str.replace("_.", ".")
RECURSIVE ReplaceUnderscoreDot(_)
ReplaceUnderscoreDot(s) ==
  IF Len(s) < 2 THEN s
  ELSE IF s[1] = "_" /\ s[2] = "." THEN <<".">> \o ReplaceUnderscoreDot(SubSeq(s, 3, Len(s)))
  ELSE <<s[1]>> \o ReplaceUnderscoreDot(Tail(s))

safe_filename(name, max_len) ==
  LET out == Strip([i \in DOMAIN name |-> IF name[i] \in BadChars THEN "_" ELSE name[i]])
      stem == Prefix(Stem(out), max_len - Len(Suffix(out)) - 1)
  IN  IF Len(out) > max_len
      THEN ReplaceUnderscoreDot(stem \o <<"_">> \o LStripDots(Suffix(out)))
      ELSE out

now_iso_jst == Iso(now)

----------------------------------------------------------------------------
(* inbox_common.paths: the files under a user's root *)

Path(area, kind, day, id, name) ==
  [area |-> area, kind |-> kind, day |-> day, id |-> id, name |-> name]

NoPath == Path("", "", 0, 0, <<>>)

items_db_path == Path("_meta", "", 0, 0, <<"inbox_items.db">>)
last_viewed_db_path == Path("_meta", "", 0, 0, <<"last_viewed.db">>)

thumb_path_for_item(item_id) == Path("thumbs", "image", 0, item_id, <<".","w","e","b","p">>)

\* paths.get(f"{kind}_files", paths["other_files"])
FilesBase(kind) == IF kind \in Kinds THEN kind ELSE "other"

Put(f, p, size) == [q \in DOMAIN f \cup {p} |-> IF q = p THEN size ELSE f[q]]
Drop(f, p) == [q \in DOMAIN f \ {p} |-> f[q]]
Exists(u, p) == p \in DOMAIN files[u]

----------------------------------------------------------------------------
(* inbox_ops.quota *)

RECURSIVE SumSizes(_, _)
SumSizes(f, ps) ==
  IF ps = {} THEN Bytes(0, 0)
  ELSE LET p == CHOOSE q \in ps : TRUE
       IN  BAdd(f[p], SumSizes(f, ps \ {p}))

folder_size_bytes(u) == SumSizes(files[u], DOMAIN files[u])

----------------------------------------------------------------------------
(* inbox_db.items_db *)

Row(item_id, kind, stored_rel, original_name, added_at, size_bytes, tags_json, thumb_rel, thumb_status, origin_user, origin_item_id, origin_type) ==
  [item_id |-> item_id, kind |-> kind, stored_rel |-> stored_rel,
   original_name |-> original_name, added_at |-> added_at,
   size_bytes |-> size_bytes, note |-> <<>>, tags_json |-> tags_json,
   thumb_rel |-> thumb_rel, thumb_status |-> thumb_status,
   origin_user |-> origin_user, origin_item_id |-> origin_item_id,
   origin_type |-> origin_type]

NoRow == Row(0, "", NoPath, <<>>, <<>>, Bytes(0, 0), <<>>, NoPath, "", "", 0, "")

EmptyTags == <<"[", "]">>

\* ensure_items_db: the file and the table exist afterwards; rows are kept
ensure_items_db(f) ==
  IF items_db_path \in DOMAIN f /\ f[items_db_path] # Bytes(0, 0) THEN f
  ELSE Put(f, items_db_path, Bytes(0, DbFileBytes))

\* A column of table inbox_items as PRAGMA table_info shows it
ColumnInfo(name, type, notnull, dflt_value, pk) ==
  [name |-> name, type |-> type, notnull |-> notnull, dflt_value |-> dflt_value, pk |-> pk]

\* the columns every version of the table has (lines 160-165 of CREATE TABLE)
BaseColumns ==
  << ColumnInfo("item_id", "TEXT", FALSE, "NULL", TRUE),
     ColumnInfo("kind", "TEXT", TRUE, "NULL", FALSE),
     ColumnInfo("stored_rel", "TEXT", TRUE, "NULL", FALSE),
     ColumnInfo("original_name", "TEXT", TRUE, "NULL", FALSE),
     ColumnInfo("added_at", "TEXT", TRUE, "NULL", FALSE),
     ColumnInfo("size_bytes", "INTEGER", TRUE, "NULL", FALSE) >>

\* the columns _add repairs, in the order of its calls (lines 183-192); the
\* CREATE TABLE statement declares them the same way (lines 166-173)
NewerColumns ==
  << ColumnInfo("note", "TEXT", FALSE, "''", FALSE),
     ColumnInfo("tags_json", "TEXT", FALSE, "'[]'", FALSE),
     ColumnInfo("thumb_rel", "TEXT", FALSE, "''", FALSE),
     ColumnInfo("thumb_status", "TEXT", FALSE, "'none'", FALSE),
     ColumnInfo("thumb_error", "TEXT", FALSE, "''", FALSE),
     ColumnInfo("origin_user", "TEXT", FALSE, "''", FALSE),
     ColumnInfo("origin_item_id", "TEXT", FALSE, "''", FALSE),
     ColumnInfo("origin_type", "TEXT", FALSE, "''", FALSE) >>

\* the indexes of lines 195-198
ItemIndexes == {"idx_inbox_kind", "idx_inbox_added", "idx_inbox_name", "idx_inbox_thumb"}

\* A table: its columns in declaration order, its rows in rowid order (a row
\* is the sequence of its values as SQL literals, one per column), its indexes
Table(exists, cols, rows, indexes, calls) ==
  [exists |-> exists, cols |-> cols, rows |-> rows, indexes |-> indexes, calls |-> calls]

NoTable == Table(FALSE, <<>>, <<>>, {}, 0)

ColumnNames(cols) == {cols[k].name : k \in DOMAIN cols}

\* ALTER TABLE inbox_items ADD COLUMN: the column goes last, and every row
\* reads the default in it
AddColumn(t, col) ==
  [t EXCEPT !.cols = Append(@, col),
            !.rows = [k \in DOMAIN @ |-> Append(@[k], col.dflt_value)]]

\* the _add calls from position k on; had is the set of column names read
\* once, at line 177, before the first of them
RECURSIVE AddMissing(_, _, _)
AddMissing(t, had, k) ==
  IF k > Len(NewerColumns) THEN t
  ELSE AddMissing(IF NewerColumns[k].name \in had THEN t ELSE AddColumn(t, NewerColumns[k]),
                  had, k + 1)

\* an ensure_items_db that drops the table and creates it anew
ensure_items_db_table_Recreate(t) ==
  Table(TRUE, BaseColumns \o NewerColumns, <<>>, ItemIndexes, t.calls)

\* ensure_items_db on the table: CREATE TABLE IF NOT EXISTS, the repairs,
\* CREATE INDEX IF NOT EXISTS
ensure_items_db_table(t) ==
  LET created == IF t.exists THEN t
                 ELSE Table(TRUE, BaseColumns \o NewerColumns, <<>>, {}, t.calls)
      repaired == AddMissing(created, ColumnNames(created.cols), 1)
  IN  [repaired EXCEPT !.indexes = @ \cup ItemIndexes]

\* inbox_items exists in the file sqlite3.connect opens (a file connect had to
\* create is empty and has no table)
HasItemsTable(f) == items_db_path \in DOMAIN f /\ f[items_db_path] # Bytes(0, 0)

\* sqlite3.connect(items_db) creates the file when it is missing
Connected(f) == IF items_db_path \in DOMAIN f THEN f ELSE Put(f, items_db_path, Bytes(0, 0))

insert_item(tbl, row) == [i \in DOMAIN tbl \cup {row.item_id} |->
                            IF i = row.item_id THEN row ELSE tbl[i]]

update_thumb(tbl, item_id, thumb_rel, status) ==
  [i \in DOMAIN tbl |->
     IF i = item_id
     THEN [tbl[i] EXCEPT !.thumb_rel = thumb_rel,
                         !.thumb_status = IF status = "" THEN "none" ELSE status]
     ELSE tbl[i]]

\* json.dumps(s, ensure_ascii=False) without its quotes: a backslash before
\* a quote and before a backslash (the texts of the model hold no control
\* character)
RECURSIVE JsonEscape(_)
JsonEscape(s) ==
  IF s = <<>> THEN <<>>
  ELSE (IF Head(s) \in {"\"", "\\"} THEN <<"\\", Head(s)>> ELSE <<Head(s)>>)
       \o JsonEscape(Tail(s))

\* json.dumps([tag] if tag else [], ensure_ascii=False)
DumpTagList(tag) ==
  IF tag = <<>> THEN EmptyTags
  ELSE <<"[", "\"">> \o JsonEscape(tag) \o <<"\"", "]">>

update_item_tag_single(tbl, item_id, new_tag) ==
  [i \in DOMAIN tbl |->
     IF i = item_id
     THEN [tbl[i] EXCEPT !.tags_json = DumpTagList(Strip(new_tag))]
     ELSE tbl[i]]

\* an update with no WHERE clause
update_item_note_AllRows(tbl, item_id, note) ==
  [i \in DOMAIN tbl |-> [tbl[i] EXCEPT !.note = note]]

update_item_note(tbl, item_id, note) ==
  [i \in DOMAIN tbl |->
     IF i = item_id THEN [tbl[i] EXCEPT !.note = note] ELSE tbl[i]]

delete_item_row(tbl, item_id) == [i \in DOMAIN tbl \ {item_id} |-> tbl[i]]

----------------------------------------------------------------------------
(* Calls in progress and their results *)

Op(name, pc, user, peer, item_id, new_id, filename, size, kind, path, row) ==
  [name |-> name, pc |-> pc, user |-> user, peer |-> peer, item_id |-> item_id,
   new_id |-> new_id, filename |-> filename, size |-> size, kind |-> kind,
   path |-> path, row |-> row, tags_json |-> <<>>]

Idle == Op("idle", "", "", "", 0, 0, <<>>, Bytes(0, 0), "", NoPath, NoRow)

Result(name, outcome, user, peer, item_id, new_id) ==
  [op |-> name, outcome |-> outcome, user |-> user, peer |-> peer,
   item_id |-> item_id, new_id |-> new_id,
   current |-> Bytes(0, 0), incoming |-> Bytes(0, 0), quota |-> Bytes(0, 0),
   fault |-> "", kind |-> "", at |-> <<>>, was |-> <<>>,
   current_thumb_rel |-> NoPath, current_thumb_status |-> "",
   req |-> 0, limit |-> 0, offset |-> 0, total |-> 0, rows |-> <<>>]

NoResult == Result("", "", "", "", 0, 0)

----------------------------------------------------------------------------
(* Requests of the model *)

NameReport == <<"r", ".", "p", "d", "f">>
NamePhoto == <<"p", ".", "P", "N", "G">>
NameEmpty == <<>>

\* 4 GiB less the catalog file, so that the user's folder then holds 4 GiB
FourGiBLessDb == Bytes(3, GiB - DbFileBytes)

TagsT == <<"[", "\"", "t", "\"", "]">>

\* IngestRequest(user_sub, filename, data, tags_json); size is len(data)
IngestRequests ==
  { [filename |-> NameReport, size |-> FourGiBLessDb, tags_json |-> TagsT],
    [filename |-> NamePhoto,  size |-> Bytes(1, 0),   tags_json |-> <<>>],
    [filename |-> NameEmpty,  size |-> Bytes(1, 1),   tags_json |-> EmptyTags] }

----------------------------------------------------------------------------
(* Initial state: an Inbox root with no user directory yet *)

\* no stand-alone function call is in progress
\* no sessions.db file yet, and a browser session that has not shown the picker
NoSessions == [exists |-> FALSE]
NoPage == -1
Quiet ==
  /\ sess = NoSessions
  /\ session_state = [page |-> NoPage]

NoCall ==
  /\ arg = <<>>
  /\ ret = <<>>
  /\ Quiet

EmptyInbox ==
  /\ now = 1
  /\ nextId = 1
  /\ items = [u \in Users |-> <<>>]
  /\ files = [u \in Users |-> <<>>]
  /\ lvStatus = [u \in Users |-> "absent"]
  /\ lvRows = [u \in Users |-> {}]
  /\ sendLog = <<>>
  /\ op = Idle
  /\ last = NoResult
  /\ other = Idle
  /\ otherLast = NoResult
  /\ legacy = NoTable

Init == EmptyInbox /\ NoCall

Tick ==
  /\ op = Idle
  /\ now < MaxTime
  /\ now' = now + 1
  /\ UNCHANGED <<nextId, items, files, lvStatus, lvRows, sendLog, op, last, other, otherLast, legacy, aux>>

----------------------------------------------------------------------------
(* inbox_ops.thumb *)

\* an ensure_thumb_for_item that leaves the row of a non-image item as it is
ensure_thumb_for_item_NoReset(u, tbl, f, item_id, kind, stored_rel, current_thumb_rel, current_thumb_status, decoded) ==
  LET out_webp == thumb_path_for_item(item_id)
  IN  IF kind # "image"
      THEN [tbl |-> tbl, f |-> f, rel |-> NoPath, status |-> "none"]
      ELSE IF current_thumb_status = "ok" /\ current_thumb_rel # NoPath
              /\ current_thumb_rel \in DOMAIN f
      THEN [tbl |-> tbl, f |-> f, rel |-> current_thumb_rel, status |-> "ok"]
      ELSE IF stored_rel \notin DOMAIN f
      THEN [tbl |-> update_thumb(tbl, item_id, NoPath, "failed"),
            f |-> f, rel |-> NoPath, status |-> "failed"]
      ELSE IF decoded
      THEN [tbl |-> update_thumb(tbl, item_id, out_webp, "ok"),
            f |-> Put(f, out_webp, Bytes(0, ThumbBytes)),
            rel |-> out_webp, status |-> "ok"]
      ELSE [tbl |-> update_thumb(tbl, item_id, NoPath, "failed"),
            f |-> f, rel |-> NoPath, status |-> "failed"]

\* ensure_thumb_for_item: the catalog and the files it leaves, and the triple
\* it returns.  decoded says whether Pillow decoded and encoded the image.
ensure_thumb_for_item(u, tbl, f, item_id, kind, stored_rel, current_thumb_rel, current_thumb_status, decoded) ==
  LET out_webp == thumb_path_for_item(item_id)
  IN  IF kind # "image"
      THEN [tbl |-> IF current_thumb_status # "none" \/ current_thumb_rel # NoPath
                    THEN update_thumb(tbl, item_id, NoPath, "none")
                    ELSE tbl,
            f |-> f, rel |-> NoPath, status |-> "none"]
      ELSE IF current_thumb_status = "ok" /\ current_thumb_rel # NoPath
              /\ current_thumb_rel \in DOMAIN f
      THEN [tbl |-> tbl, f |-> f, rel |-> current_thumb_rel, status |-> "ok"]
      ELSE IF stored_rel \notin DOMAIN f
      THEN [tbl |-> update_thumb(tbl, item_id, NoPath, "failed"),
            f |-> f, rel |-> NoPath, status |-> "failed"]
      ELSE IF decoded
      THEN [tbl |-> update_thumb(tbl, item_id, out_webp, "ok"),
            f |-> Put(f, out_webp, Bytes(0, ThumbBytes)),
            rel |-> out_webp, status |-> "ok"]
      ELSE [tbl |-> update_thumb(tbl, item_id, NoPath, "failed"),
            f |-> f, rel |-> NoPath, status |-> "failed"]

----------------------------------------------------------------------------
(* inbox_ops.ingest: ingest_to_inbox, one action per I/O step *)

\* a call between its quota check and its write_bytes
InFlight(c) == c.name = "ingest" /\ c.pc = "write"

\* a test that also counts the data of calls that passed the check and have
\* not written yet
OverQuota_Reserving(current, incoming, quota) ==
  BGt(BAdd(BAdd(BAdd(current, IF InFlight(op) THEN op.size ELSE Bytes(0, 0)),
                IF InFlight(other) THEN other.size ELSE Bytes(0, 0)),
           incoming), quota)

\* the test with >= in place of >
OverQuota_AtLeast(current, incoming, quota) == ~BGt(quota, BAdd(current, incoming))

\* the quota test of ingest_to_inbox and send_item_copy
OverQuota(current, incoming, quota) == BGt(BAdd(current, incoming), quota)

\* lines 67-101: user directories and schema, quota check, destination.
\* c is the calling process's call in progress and res its result record;
\* cNext and resNext are their values after the step.
IngestCheckBy(c, cNext, res, resNext, u, r) ==
  /\ c = Idle
  /\ LET f1 == ensure_items_db(files[u])
         current == SumSizes(f1, DOMAIN f1)
         incoming == r.size
         quota == quota_bytes_for_user(u)
         kind == detect_kind(r.filename)
         item_id == nextId
         out_path == Path("files", FilesBase(kind), now, item_id, safe_filename(r.filename, DefaultMaxLen))
     IN  /\ files' = [files EXCEPT ![u] = f1]
         /\ IF OverQuota(current, incoming, quota)
            THEN /\ resNext = [Result("ingest_to_inbox", "QuotaExceeded", u, "", 0, 0)
                                 EXCEPT !.current = current, !.incoming = incoming,
                                        !.quota = quota]
                 /\ cNext = c
                 /\ UNCHANGED nextId
            ELSE /\ nextId <= MaxItems
                 /\ nextId' = nextId + 1
                 /\ cNext = [Op("ingest", "write", u, "", 0, item_id, r.filename,
                                incoming, kind, out_path, NoRow)
                              EXCEPT !.tags_json = r.tags_json]
                 /\ resNext = [Result("ingest_to_inbox", "running", u, "", 0, item_id)
                                 EXCEPT !.current = current, !.incoming = incoming,
                                        !.quota = quota]
  /\ UNCHANGED <<now, items, lvStatus, lvRows, sendLog>>

IngestCheck(u, r) == IngestCheckBy(op, op', last, last', u, r) /\ UNCHANGED <<other, otherLast, legacy, aux>>

\* lines 106-109: out_path.write_bytes, which may raise
IngestWriteBy(c, cNext, res, resNext) ==
  /\ c.name = "ingest" /\ c.pc = "write"
  /\ \/ /\ files' = [files EXCEPT ![c.user] = Put(@, c.path, c.size)]
        /\ cNext = [c EXCEPT !.pc = "insert"]
        /\ resNext = res
     \/ /\ cNext = Idle
        /\ resNext = [res EXCEPT !.outcome = "IngestFailed", !.fault = "write_bytes"]
        /\ UNCHANGED files
  /\ UNCHANGED <<now, nextId, items, lvStatus, lvRows, sendLog>>

IngestWrite == IngestWriteBy(op, op', last, last') /\ UNCHANGED <<other, otherLast, legacy, aux>>

\* x or "[]"
OrEmptyTags(x) == IF x = <<>> THEN EmptyTags ELSE x

IngestRowOf(c) ==
  Row(c.new_id, c.kind, c.path, c.filename, now_iso_jst, c.size,
      OrEmptyTags(c.tags_json), NoPath, "none", "", 0, "")

IngestRow == IngestRowOf(op)

\* a rollback that leaves the file
Rollback_Skipped(f, p) == f

\* the rollback of a failed insert: out_path.unlink(missing_ok=True)
Rollback(f, p) == Drop(f, p)

\* lines 122-145: insert_item, and on failure unlink the file and raise
IngestInsertBy(c, cNext, res, resNext) ==
  /\ c.name = "ingest" /\ c.pc = "insert"
  /\ \/ /\ items' = [items EXCEPT ![c.user] = insert_item(@, IngestRowOf(c))]
        /\ cNext = [c EXCEPT !.pc = "thumb"]
        /\ resNext = res
        /\ UNCHANGED files
     \/ /\ files' = [files EXCEPT ![c.user] = Rollback(@, c.path)]
        /\ cNext = Idle
        /\ resNext = [res EXCEPT !.outcome = "IngestFailed", !.fault = "insert_item"]
        /\ UNCHANGED items
  /\ UNCHANGED <<now, nextId, lvStatus, lvRows, sendLog>>

IngestInsert == IngestInsertBy(op, op', last, last') /\ UNCHANGED <<other, otherLast, legacy, aux>>

\* lines 150-168: ensure_thumb_for_item, then the IngestResult
IngestThumbBy(c, cNext, res, resNext) ==
  /\ c.name = "ingest" /\ c.pc = "thumb"
  /\ \E decoded \in BOOLEAN :
       LET t == ensure_thumb_for_item(c.user, items[c.user], files[c.user],
                                      c.new_id, c.kind, c.path, NoPath, "", decoded)
       IN  /\ items' = [items EXCEPT ![c.user] = t.tbl]
           /\ files' = [files EXCEPT ![c.user] = t.f]
  /\ cNext = Idle
  /\ resNext = [res EXCEPT !.outcome = "ok"]
  /\ UNCHANGED <<now, nextId, lvStatus, lvRows, sendLog>>

IngestThumb == IngestThumbBy(op, op', last, last') /\ UNCHANGED <<other, otherLast, legacy, aux>>

----------------------------------------------------------------------------
(* inbox_ops.send: send_item_copy, one action per I/O step *)

IdText(id) == <<DigitChar[id]>>

\* Path.name of a stored file: f"{item_id}__{safe_name}"
FileName(p) == IdText(p.id) \o <<"_", "_">> \o p.name

SendFail(from_user, to_user, item_id, why) ==
  /\ last' = Result("send_item_copy", why, from_user, to_user, item_id, 0)
  /\ UNCHANGED <<op, nextId, files, other, otherLast, legacy, aux>>

\* lines 107-156: source row and file, destination quota, destination path
SendCheck(from_user, to_user, item_id) ==
  /\ op = Idle
  /\ IF from_user = to_user
     THEN SendFail(from_user, to_user, item_id, "IngestFailed")
     ELSE IF items_db_path \notin DOMAIN files[from_user]
     THEN SendFail(from_user, to_user, item_id, "IngestFailed")
     ELSE IF ~HasItemsTable(files[from_user])
     THEN SendFail(from_user, to_user, item_id, "sqlite3.OperationalError")
     ELSE IF item_id \notin DOMAIN items[from_user]
     THEN SendFail(from_user, to_user, item_id, "IngestFailed")
     ELSE
       LET row == items[from_user][item_id]
           raw_kind == row.kind
           src_path == row.stored_rel
       IN  IF src_path \notin DOMAIN files[from_user]
           THEN SendFail(from_user, to_user, item_id, "IngestFailed")
           ELSE
             LET incoming == files[from_user][src_path]
                 current == folder_size_bytes(to_user)
                 quota == quota_bytes_for_user(to_user)
                 new_item_id == nextId
                 name == IF row.original_name # <<>> THEN row.original_name
                         ELSE FileName(src_path)
                 out_path == Path("files", FilesBase(raw_kind), now, new_item_id,
                                  safe_filename(name, DefaultMaxLen))
             IN  /\ UNCHANGED files
                 /\ IF OverQuota(current, incoming, quota)
                    THEN /\ last' = [Result("send_item_copy", "QuotaExceeded",
                                            from_user, to_user, item_id, 0)
                                       EXCEPT !.current = current,
                                              !.incoming = incoming, !.quota = quota]
                         /\ UNCHANGED <<op, nextId>>
                    ELSE /\ nextId <= MaxItems
                         /\ nextId' = nextId + 1
                         /\ op' = Op("send", "write", from_user, to_user, item_id,
                                     new_item_id, name, incoming, raw_kind, out_path, row)
                         /\ last' = [Result("send_item_copy", "running",
                                            from_user, to_user, item_id, new_item_id)
                                       EXCEPT !.current = current,
                                              !.incoming = incoming, !.quota = quota]
  /\ UNCHANGED <<now, items, lvStatus, lvRows, sendLog, other, otherLast, legacy, aux>>

\* lines 158-161: out_path.write_bytes, which may raise
SendWrite ==
  /\ op.name = "send" /\ op.pc = "write"
  /\ \/ /\ files' = [files EXCEPT ![op.peer] = Put(@, op.path, op.size)]
        /\ op' = [op EXCEPT !.pc = "insert"]
        /\ UNCHANGED last
     \/ /\ op' = Idle
        /\ last' = [last EXCEPT !.outcome = "IngestFailed", !.fault = "write_bytes"]
        /\ UNCHANGED files
  /\ UNCHANGED <<now, nextId, items, lvStatus, lvRows, sendLog, other, otherLast, legacy, aux>>

\* the row without its provenance
SendRow_NoOrigin ==
  Row(op.new_id, op.kind, op.path, op.filename, now_iso_jst, op.size,
      OrEmptyTags(op.row.tags_json), NoPath, "none", "", 0, "")

\* the row send_item_copy inserts for the destination user
SendRow ==
  Row(op.new_id, op.kind, op.path, op.filename, now_iso_jst, op.size,
      OrEmptyTags(op.row.tags_json), NoPath, "none", op.user, op.item_id, "copy")

\* lines 170-196: ensure_items_db (outside the try), then insert_item with
\* the rollback of ingest_to_inbox
SendInsert ==
  /\ op.name = "send" /\ op.pc = "insert"
  /\ \/ /\ files' = [files EXCEPT ![op.peer] = ensure_items_db(@)]
        /\ items' = [items EXCEPT ![op.peer] = insert_item(@, SendRow)]
        /\ op' = [op EXCEPT !.pc = "thumb"]
        /\ UNCHANGED last
     \/ \* ensure_items_db raises: the sqlite3 error leaves send_item_copy as it is
        /\ op' = Idle
        /\ last' = [last EXCEPT !.outcome = "sqlite3.Error", !.fault = "ensure_items_db"]
        /\ UNCHANGED <<files, items>>
     \/ \* insert_item raises
        /\ files' = [files EXCEPT ![op.peer] = Rollback(ensure_items_db(@), op.path)]
        /\ op' = Idle
        /\ last' = [last EXCEPT !.outcome = "IngestFailed", !.fault = "insert_item"]
        /\ UNCHANGED items
  /\ UNCHANGED <<now, nextId, lvStatus, lvRows, sendLog, other, otherLast, legacy, aux>>

\* lines 201-213: the thumbnail of an image, recorded a second time by update_thumb
SendThumb ==
  /\ op.name = "send" /\ op.pc = "thumb"
  /\ IF op.kind = "image"
     THEN \E decoded \in BOOLEAN :
            LET t == ensure_thumb_for_item(op.peer, items[op.peer], files[op.peer],
                                           op.new_id, op.kind, op.path, NoPath, "", decoded)
            IN  /\ items' = [items EXCEPT ![op.peer] =
                               update_thumb(t.tbl, op.new_id, t.rel, t.status)]
                /\ files' = [files EXCEPT ![op.peer] = t.f]
     ELSE UNCHANGED <<items, files>>
  /\ op' = [op EXCEPT !.pc = "log"]
  /\ UNCHANGED <<now, nextId, lvStatus, lvRows, sendLog, last, other, otherLast, legacy, aux>>

\* the record _append_send_log writes
SendLogRecord ==
  [at |-> now_iso_jst, from_user |-> op.user, to_user |-> op.peer,
   origin_item_id |-> op.item_id, new_item_id |-> op.new_id, kind |-> op.kind,
   origin_type |-> "copy", origin_name |-> op.row.original_name,
   tags_json |-> OrEmptyTags(op.row.tags_json)]

\* what send_item_copy ends with when _append_send_log raises: the call at
\* lines 218-231 stands in no try block
AppendFailed == "OSError"

\* lines 218-233: _append_send_log, which may raise, then return new_item_id
SendLog ==
  /\ op.name = "send" /\ op.pc = "log"
  /\ \/ /\ sendLog' = Append(sendLog, SendLogRecord)
        /\ last' = [last EXCEPT !.outcome = "ok"]
     \/ /\ last' = [last EXCEPT !.outcome = AppendFailed, !.fault = "_append_send_log"]
        /\ UNCHANGED sendLog
  /\ op' = Idle
  /\ UNCHANGED <<now, nextId, items, files, lvStatus, lvRows, other, otherLast, legacy, aux>>

----------------------------------------------------------------------------
(* inbox_ops.delete: delete_item, one action per I/O step *)

\* lines 36-45: ensure_user_dirs, _fetch_item_row
DeleteFetch(u, item_id) ==
  /\ op = Idle
  /\ files' = [files EXCEPT ![u] = Connected(@)]
  /\ IF ~HasItemsTable(files[u])
     THEN /\ last' = [Result("delete_item", "failed", u, "", item_id, 0)
                        EXCEPT !.fault = "no such table: inbox_items"]
          /\ UNCHANGED op
     ELSE IF item_id \notin DOMAIN items[u]
     THEN /\ last' = Result("delete_item", "not found", u, "", item_id, 0)
          /\ UNCHANGED op
     ELSE /\ op' = Op("delete", "file", u, "", item_id, 0, <<>>, Bytes(0, 0), "",
                      NoPath, items[u][item_id])
          /\ last' = Result("delete_item", "running", u, "", item_id, 0)
  /\ UNCHANGED <<now, nextId, items, lvStatus, lvRows, sendLog, other, otherLast, legacy, aux>>

\* the catalog row removed first, the file left for a later step
DeleteFile_RowFirst ==
  /\ op.name = "delete" /\ op.pc = "file"
  /\ items' = [items EXCEPT ![op.user] = delete_item_row(@, op.item_id)]
  /\ op' = [op EXCEPT !.pc = "thumb"]
  /\ UNCHANGED <<now, nextId, files, lvStatus, lvRows, sendLog, last, other, otherLast, legacy, aux>>

\* lines 50-54: unlink the backing file if it is there
DeleteFile ==
  /\ op.name = "delete" /\ op.pc = "file"
  /\ files' = [files EXCEPT ![op.user] =
                 IF op.row.stored_rel # NoPath /\ op.row.stored_rel \in DOMAIN @
                 THEN Drop(@, op.row.stored_rel) ELSE @]
  /\ last' = [last EXCEPT !.fault = IF op.row.stored_rel \in DOMAIN files[op.user]
                                    THEN "" ELSE "backing file missing"]
  /\ op' = [op EXCEPT !.pc = "thumb"]
  /\ UNCHANGED <<now, nextId, items, lvStatus, lvRows, sendLog, other, otherLast, legacy, aux>>

\* a delete that leaves the thumbnail file
DeleteThumb_Skipped ==
  /\ op.name = "delete" /\ op.pc = "thumb"
  /\ op' = [op EXCEPT !.pc = "row"]
  /\ UNCHANGED <<now, nextId, items, files, lvStatus, lvRows, sendLog, last, other, otherLast, legacy, aux>>

\* lines 56-60: unlink the thumbnail if one is recorded and there
DeleteThumb ==
  /\ op.name = "delete" /\ op.pc = "thumb"
  /\ files' = [files EXCEPT ![op.user] =
                 IF op.row.thumb_rel # NoPath /\ op.row.thumb_rel \in DOMAIN @
                 THEN Drop(@, op.row.thumb_rel) ELSE @]
  /\ op' = [op EXCEPT !.pc = "row"]
  /\ UNCHANGED <<now, nextId, items, lvStatus, lvRows, sendLog, last, other, otherLast, legacy, aux>>

\* a delete that leaves the row
DeleteRow_Kept ==
  /\ op.name = "delete" /\ op.pc = "row"
  /\ op' = Idle
  /\ last' = [last EXCEPT !.outcome = "ok"]
  /\ UNCHANGED <<now, nextId, items, files, lvStatus, lvRows, sendLog, other, otherLast, legacy, aux>>

\* a delete that also removes the item's last_viewed rows
DeleteRow_Cascade ==
  /\ op.name = "delete" /\ op.pc = "row"
  /\ items' = [items EXCEPT ![op.user] = delete_item_row(@, op.item_id)]
  /\ lvRows' = [lvRows EXCEPT ![op.user] = {r \in @ : r.item_id # op.item_id}]
  /\ op' = Idle
  /\ last' = [last EXCEPT !.outcome = "ok"]
  /\ UNCHANGED <<now, nextId, files, lvStatus, sendLog, other, otherLast, legacy, aux>>

\* lines 62-65: _delete_item_row, return (True, ...)
DeleteRow ==
  /\ op.name = "delete" /\ op.pc = "row"
  /\ items' = [items EXCEPT ![op.user] = delete_item_row(@, op.item_id)]
  /\ op' = Idle
  /\ last' = [last EXCEPT !.outcome = "ok"]
  /\ UNCHANGED <<now, nextId, files, lvStatus, lvRows, sendLog, other, otherLast, legacy, aux>>

\* the process is killed while delete_item runs
DeleteStops ==
  /\ op.name = "delete"
  /\ op' = Idle
  /\ last' = [last EXCEPT !.outcome = "stopped"]
  /\ UNCHANGED <<now, nextId, items, files, lvStatus, lvRows, sendLog, other, otherLast, legacy, aux>>

----------------------------------------------------------------------------
Next ==
  \/ Tick
  \/ \E u \in Users, r \in IngestRequests : IngestCheck(u, r)
  \/ IngestWrite
  \/ IngestInsert
  \/ IngestThumb
  \/ \E u \in Users, v \in Users, i \in Ids : SendCheck(u, v, i)
  \/ SendWrite
  \/ SendInsert
  \/ SendThumb
  \/ SendLog
  \/ \E u \in Users, i \in Ids : DeleteFetch(u, i)
  \/ DeleteFile
  \/ DeleteThumb
  \/ DeleteRow
  \/ DeleteStops

Spec == Init /\ [][Next]_vars

----------------------------------------------------------------------------
(* inbox_db.last_viewed_db *)

LvRow(user_sub, item_id, kind, last_viewed_at) ==
  [user_sub |-> user_sub, item_id |-> item_id, kind |-> kind,
   last_viewed_at |-> last_viewed_at]

\* what ensure_last_viewed_db ends with on a file in the given state:
\* "ok", or the exception of the first statement that fails (a file that is
\* no database fails CREATE TABLE, a table without last_viewed_at fails
\* CREATE INDEX ... ON last_viewed(last_viewed_at))
ensure_last_viewed_db(status) ==
  CASE status \in {"absent", "ok"} -> "ok"
    [] status = "corrupt" -> "sqlite3.DatabaseError"
    [] status = "lacks last_viewed_at" -> "sqlite3.OperationalError"

\* the file ensure_last_viewed_db leaves when it succeeds
EnsuredLvFile(f) ==
  IF last_viewed_db_path \in DOMAIN f THEN f
  ELSE Put(f, last_viewed_db_path, Bytes(0, DbFileBytes))

\* the argument viewed_at_iso: None or a text
NoneArg == [isNone |-> TRUE, text |-> <<>>]
TextArg(s) == [isNone |-> FALSE, text |-> s]

\* a test that forgets to strip
IsBlank_NoStrip(viewed_at_iso) == viewed_at_iso.isNone \/ viewed_at_iso.text = <<>>

\* line 182: viewed_at_iso is None or str(viewed_at_iso).strip() == ""
IsBlank(viewed_at_iso) == viewed_at_iso.isNone \/ Strip(viewed_at_iso.text) = <<>>

\* INSERT without the conflict clause, on a table without the primary key
Upserted_PlainInsert(rows, r) == rows \cup {r}

\* lines 191-201: INSERT ... ON CONFLICT(user_sub, item_id) DO UPDATE SET
\* kind = excluded.kind, last_viewed_at = excluded.last_viewed_at
Upserted(rows, r) ==
  {o \in rows : ~(o.user_sub = r.user_sub /\ o.item_id = r.item_id)} \cup {r}

\* upsert_last_viewed on u's last_viewed.db
UpsertLastViewed(u, item_id, kind, viewed_at_iso) ==
  /\ op = Idle
  /\ LET res == [Result("upsert_last_viewed", "", u, "", item_id, 0)
                   EXCEPT !.kind = kind, !.at = viewed_at_iso.text]
         ensured == ensure_last_viewed_db(lvStatus[u])
         held == {o \in lvRows[u] : o.user_sub = u /\ o.item_id = item_id}
     IN  IF IsBlank(viewed_at_iso)
         THEN /\ last' = [res EXCEPT !.outcome = "ValueError",
                                     !.fault = IF viewed_at_iso.isNone THEN "None" ELSE "blank"]
              /\ UNCHANGED <<lvStatus, lvRows, files>>
         ELSE IF ensured # "ok"
         THEN /\ last' = [res EXCEPT !.outcome = ensured]
              /\ UNCHANGED <<lvStatus, lvRows, files>>
         ELSE /\ lvStatus' = [lvStatus EXCEPT ![u] = "ok"]
              /\ files' = [files EXCEPT ![u] = EnsuredLvFile(@)]
              /\ lvRows' = [lvRows EXCEPT ![u] =
                              Upserted(@, LvRow(u, item_id, kind, viewed_at_iso.text))]
              /\ \E w \in {o.last_viewed_at : o \in held} \cup
                             (IF held = {} THEN {<<>>} ELSE {}) :
                    last' = [res EXCEPT !.outcome = "ok", !.was = w]
  /\ UNCHANGED <<now, nextId, items, sendLog, op, other, otherLast, legacy, aux>>

\* the states a last_viewed.db file is found in besides the canonical one
LvDamages == {"corrupt", "lacks last_viewed_at"}

\* the environment: u's last_viewed.db is overwritten with garbage, or is a
\* file of the older generation whose table has viewed_at for last_viewed_at
LvDamage(u, how) ==
  /\ op = Idle
  /\ lvStatus[u] \in {"absent", "ok"}
  /\ lvStatus' = [lvStatus EXCEPT ![u] = how]
  /\ lvRows' = [lvRows EXCEPT ![u] = {}]
  /\ files' = [files EXCEPT ![u] = EnsuredLvFile(@)]
  /\ UNCHANGED <<now, nextId, items, sendLog, op, last, other, otherLast, legacy, aux>>

\* the arguments the model passes as viewed_at_iso
ViewedAtArgs ==
  {NoneArg, TextArg(<<>>), TextArg(<<" ">>)} \cup {TextArg(Iso(t)) : t \in 1..MaxTime}

ViewKinds == {"pdf", "image"}

----------------------------------------------------------------------------
(* inbox_query.query_builder *)

\* a bound parameter, and a column's value in a row: NULL, a string, a text
\* or a byte count
Value(type, str, text, bytes) == [type |-> type, str |-> str, text |-> text, bytes |-> bytes]
Null == Value("null", "", <<>>, Bytes(0, 0))
StrValue(s) == Value("str", s, <<>>, Bytes(0, 0))
TextValue(t) == Value("text", "", t, Bytes(0, 0))
IntValue(b) == Value("int", "", <<>>, b)

\* one condition of the fragment: its table alias, column and test, and the
\* number of ? placeholders it holds
Cond(alias, col, test, n) == [alias |-> alias, col |-> col, test |-> test, n |-> n]

\* Optional[date] and Optional[int] arguments that are None
NoDate == 0
NoBytes == Bytes(-1, 0)

date_to_iso_start(d) == Iso(d)
date_to_iso_end_exclusive(d) == Iso(d + 1)

\* the values of size_mode and lv_mode the builder tests for (lines 246-254
\* and 268-281 compare with the Japanese labels of the search page)
SizeAtLeast == "at least"
SizeAtMost == "at most"
SizeRange == "range"
LvAll == "all"
LvUnviewedOnly == "unviewed only"
LvDateRange == "date range"
LvRecent == "recent"

FilterRequest(kinds_checked, tag_terms, name_terms, added_from, added_to, size_mode, size_min_bytes, size_max_bytes, lv_mode, lv_from, lv_to, lv_since_iso) ==
  [kinds_checked |-> kinds_checked, tag_terms |-> tag_terms, name_terms |-> name_terms,
   added_from |-> added_from, added_to |-> added_to, size_mode |-> size_mode,
   size_min_bytes |-> size_min_bytes, size_max_bytes |-> size_max_bytes,
   lv_mode |-> lv_mode, lv_from |-> lv_from, lv_to |-> lv_to,
   lv_since_iso |-> lv_since_iso]

Wild(t) == TextValue(<<"%">> \o t \o <<"%">>)

\* a kind part that adds no condition when no kind is checked
KindPart_NoCondition(r) ==
  IF r.kinds_checked = <<>>
  THEN [conds |-> <<>>, params |-> <<>>]
  ELSE [conds |-> <<Cond("it", "kind", "IN", Len(r.kinds_checked))>>,
        params |-> [i \in DOMAIN r.kinds_checked |-> StrValue(r.kinds_checked[i])]]

\* lines 206-211
KindPart(r) ==
  IF r.kinds_checked = <<>>
  THEN [conds |-> <<Cond("", "1=0", "", 0)>>, params |-> <<>>]
  ELSE [conds |-> <<Cond("it", "kind", "IN", Len(r.kinds_checked))>>,
        params |-> [i \in DOMAIN r.kinds_checked |-> StrValue(r.kinds_checked[i])]]

\* lines 216-225
TermPart(r) ==
  [conds |-> [i \in DOMAIN r.tag_terms |-> Cond("it", "tags_json", "LIKE", 1)]
             \o [i \in DOMAIN r.name_terms |-> Cond("it", "original_name", "LIKE", 1)],
   params |-> [i \in DOMAIN r.tag_terms |-> Wild(r.tag_terms[i])]
              \o [i \in DOMAIN r.name_terms |-> Wild(r.name_terms[i])]]

\* lines 230-235
AddedPart(r) ==
  [conds |-> (IF r.added_from # NoDate THEN <<Cond("it", "added_at", ">=", 1)>> ELSE <<>>)
             \o (IF r.added_to # NoDate THEN <<Cond("it", "added_at", "<", 1)>> ELSE <<>>),
   params |-> (IF r.added_from # NoDate
               THEN <<TextValue(date_to_iso_start(r.added_from))>> ELSE <<>>)
              \o (IF r.added_to # NoDate
                  THEN <<TextValue(date_to_iso_end_exclusive(r.added_to))>> ELSE <<>>)]

\* lines 240-252
SizePart(r) ==
  LET min == [conds |-> <<Cond("it", "size_bytes", ">=", 1)>>,
              params |-> <<IntValue(r.size_min_bytes)>>]
      max == [conds |-> <<Cond("it", "size_bytes", "<=", 1)>>,
              params |-> <<IntValue(r.size_max_bytes)>>]
      none == [conds |-> <<>>, params |-> <<>>]
      hasMin == r.size_min_bytes # NoBytes
      hasMax == r.size_max_bytes # NoBytes
  IN  IF r.size_mode = SizeAtLeast /\ hasMin THEN min
      ELSE IF r.size_mode = SizeAtMost /\ hasMax THEN max
      ELSE IF r.size_mode = SizeRange
      THEN [conds |-> (IF hasMin THEN min.conds ELSE <<>>)
                      \o (IF hasMax THEN max.conds ELSE <<>>),
            params |-> (IF hasMin THEN min.params ELSE <<>>)
                       \o (IF hasMax THEN max.params ELSE <<>>)]
      ELSE none

\* lines 268-288
LvPart(r) ==
  IF r.lv_mode = LvUnviewedOnly
  THEN [conds |-> <<Cond("lv", "item_id", "IS NULL", 0)>>, params |-> <<>>]
  ELSE IF r.lv_mode = LvDateRange
  THEN [conds |-> <<Cond("lv", "item_id", "IS NOT NULL", 0)>>
                  \o (IF r.lv_from # NoDate
                      THEN <<Cond("lv", "last_viewed_at", ">=", 1)>> ELSE <<>>)
                  \o (IF r.lv_to # NoDate
                      THEN <<Cond("lv", "last_viewed_at", "<", 1)>> ELSE <<>>),
        params |-> (IF r.lv_from # NoDate
                    THEN <<TextValue(date_to_iso_start(r.lv_from))>> ELSE <<>>)
                   \o (IF r.lv_to # NoDate
                       THEN <<TextValue(date_to_iso_end_exclusive(r.lv_to))>> ELSE <<>>)]
  ELSE IF r.lv_mode = LvRecent /\ r.lv_since_iso # <<>>
  THEN [conds |-> <<Cond("lv", "item_id", "IS NOT NULL", 0),
                    Cond("lv", "last_viewed_at", ">=", 1)>>,
        params |-> <<TextValue(r.lv_since_iso)>>]
  ELSE [conds |-> <<>>, params |-> <<>>]

\* the fragment as its conditions in order (joined with " AND "; the empty
\* sequence is the empty string) and the parameter list
build_where_and_params(r) ==
  LET k == KindPart(r)
      t == TermPart(r)
      a == AddedPart(r)
      s == SizePart(r)
      v == LvPart(r)
  IN  [where_sql |-> k.conds \o t.conds \o a.conds \o s.conds \o v.conds,
       params |-> k.params \o t.params \o a.params \o s.params \o v.params]

----------------------------------------------------------------------------
(* SQLite's evaluation of a fragment on a row *)

\* text LIKE pattern: % is any run, _ any character, letters fold case
RECURSIVE Like(_, _)
Like(s, p) ==
  IF p = <<>> THEN s = <<>>
  ELSE IF Head(p) = "%" THEN Like(s, Tail(p)) \/ (s # <<>> /\ Like(Tail(s), p))
  ELSE IF s = <<>> THEN FALSE
  ELSE IF Head(p) = "_" THEN Like(Tail(s), Tail(p))
  ELSE LowerChar(Head(s)) = LowerChar(Head(p)) /\ Like(Tail(s), Tail(p))

\* the row of lvdb.last_viewed no item is joined with: every column NULL
NullLv == [isNull |-> TRUE, row |-> LvRow("", 0, "", <<>>)]
SomeLv(r) == [isNull |-> FALSE, row |-> r]

Column(c, it, lv) ==
  IF c.alias = "it"
  THEN CASE c.col = "kind" -> StrValue(it.kind)
         [] c.col = "tags_json" -> TextValue(it.tags_json)
         [] c.col = "original_name" -> TextValue(it.original_name)
         [] c.col = "added_at" -> TextValue(it.added_at)
         [] c.col = "size_bytes" -> IntValue(it.size_bytes)
  ELSE IF lv.isNull THEN Null
  ELSE CASE c.col = "item_id" -> IntValue(Bytes(0, lv.row.item_id))
         [] c.col = "last_viewed_at" -> TextValue(lv.row.last_viewed_at)

\* a < b for two non-NULL values of one type
ValueLess(a, b) ==
  IF a.type = "int" THEN BGt(b.bytes, a.bytes) ELSE TextLess(a.text, b.text)

\* a condition on a row; a comparison with NULL is not true
Test(c, args, it, lv) ==
  IF c.col = "1=0" THEN FALSE
  ELSE LET v == Column(c, it, lv)
       IN  CASE c.test = "IS NULL" -> v.type = "null"
             [] c.test = "IS NOT NULL" -> v.type # "null"
             [] c.test = "IN" -> v.type # "null" /\ \E i \in DOMAIN args : args[i] = v
             [] c.test = "LIKE" -> v.type # "null" /\ Like(v.text, args[1].text)
             [] c.test = ">=" -> v.type # "null" /\ ~ValueLess(v, args[1])
             [] c.test = "<=" -> v.type # "null" /\ ~ValueLess(args[1], v)
             [] c.test = "<" -> v.type # "null" /\ ValueLess(v, args[1])

\* the conjunction, each condition taking its placeholders' parameters in order
RECURSIVE Holds(_, _, _, _)
Holds(conds, params, it, lv) ==
  IF conds = <<>> THEN TRUE
  ELSE LET c == Head(conds)
       IN  /\ Test(c, SubSeq(params, 1, c.n), it, lv)
           /\ Holds(Tail(conds), SubSeq(params, c.n + 1, Len(params)), it, lv)

----------------------------------------------------------------------------
(* inbox_query.query_exec *)

SortNewest == <<"n","e","w","e","s","t">>
SortViewed == <<"v","i","e","w","e","d">>
SortName == <<"n","a","m","e">>

\* lines 203-206: (sort_mode or "newest").strip().lower(), newest if unknown
NormalSortMode(sort_mode) ==
  LET sm == Lower(Strip(IF sort_mode = <<>> THEN SortNewest ELSE sort_mode))
  IN  IF sm \in {SortNewest, SortViewed, SortName} THEN sm ELSE SortNewest

\* lines 222-239: the count query has the items subquery AS it and no join,
\* so a column of lv does not resolve in its WHERE clause
CountResolves(where_sql) == \A i \in DOMAIN where_sql : where_sql[i].alias # "lv"

\* lines 241-242
CountTotal(tbl, where_sql, params) ==
  Cardinality({i \in DOMAIN tbl : Holds(where_sql, params, tbl[i], NullLv)})

\* lines 273-290: it LEFT JOIN lvdb.last_viewed AS lv
\* ON lv.user_sub = ? AND lv.item_id = it.item_id
Joined(tbl, lv, sub) ==
  UNION { LET m == {r \in lv : r.user_sub = sub /\ r.item_id = i}
          IN  IF m = {} THEN {[it |-> tbl[i], lv |-> NullLv]}
              ELSE {[it |-> tbl[i], lv |-> SomeLv(r)] : r \in m}
          : i \in DOMAIN tbl }

\* an ORDER BY whose viewed order puts the rows with no last_viewed row first
Before_UnviewedFirst(sm, a, b) ==
  LET newer == TextLess(b.it.added_at, a.it.added_at)
  IN  IF sm = SortName
      THEN \/ TextLess(a.it.original_name, b.it.original_name)
           \/ (a.it.original_name = b.it.original_name /\ newer)
      ELSE IF sm = SortViewed
      THEN \/ (a.lv.isNull /\ ~b.lv.isNull)
           \/ /\ a.lv.isNull = b.lv.isNull
              /\ \/ TextLess(b.lv.row.last_viewed_at, a.lv.row.last_viewed_at)
                 \/ (a.lv.row.last_viewed_at = b.lv.row.last_viewed_at /\ newer)
      ELSE newer

\* lines 245-255: a comes strictly before b under ORDER BY
Before(sm, a, b) ==
  LET newer == TextLess(b.it.added_at, a.it.added_at)
  IN  IF sm = SortName
      THEN \/ TextLess(a.it.original_name, b.it.original_name)
           \/ (a.it.original_name = b.it.original_name /\ newer)
      ELSE IF sm = SortViewed
      THEN \/ (~a.lv.isNull /\ b.lv.isNull)
           \/ /\ a.lv.isNull = b.lv.isNull
              /\ \/ TextLess(b.lv.row.last_viewed_at, a.lv.row.last_viewed_at)
                 \/ (a.lv.row.last_viewed_at = b.lv.row.last_viewed_at /\ newer)
      ELSE newer

\* the orders SQLite may return the rows in: rows equal under ORDER BY come
\* in any order
Orderings(S, sm) ==
  {s \in [1..Cardinality(S) -> S] :
     /\ \A i, j \in DOMAIN s : i # j => s[i] # s[j]
     /\ \A i, j \in DOMAIN s : i < j => ~Before(sm, s[j], s[i])}

\* LIMIT ? OFFSET ?
Slice(s, limit, offset) ==
  SubSeq(s, offset + 1, IF offset + limit < Len(s) THEN offset + limit ELSE Len(s))

\* the columns of the data frame the model keeps
PageRow(j) ==
  [item_id |-> j.it.item_id, original_name |-> j.it.original_name,
   added_at |-> j.it.added_at, viewed |-> ~j.lv.isNull,
   last_viewed |-> j.lv.row.last_viewed_at]

AllKinds == <<"pdf", "word", "excel", "ppt", "text", "image", "other">>

\* the filter requests of the model
FilterRequests ==
  << FilterRequest(AllKinds, <<>>, <<>>, NoDate, NoDate, "", NoBytes, NoBytes,
                   LvAll, NoDate, NoDate, <<>>),
     FilterRequest(AllKinds, <<>>, <<>>, NoDate, NoDate, "", NoBytes, NoBytes,
                   LvUnviewedOnly, NoDate, NoDate, <<>>),
     FilterRequest(AllKinds, <<>>, <<>>, NoDate, NoDate, "", NoBytes, NoBytes,
                   LvDateRange, NoDate, NoDate, <<>>),
     FilterRequest(AllKinds, <<>>, <<>>, NoDate, NoDate, "", NoBytes, NoBytes,
                   LvDateRange, MaxTime, MaxTime, <<>>),
     FilterRequest(AllKinds, <<>>, <<>>, NoDate, NoDate, "", NoBytes, NoBytes,
                   LvRecent, NoDate, NoDate, Iso(MaxTime)),
     FilterRequest(AllKinds, <<>>, <<>>, NoDate, NoDate, "", NoBytes, NoBytes,
                   LvRecent, NoDate, NoDate, <<>>),
     FilterRequest(<<>>, <<>>, <<>>, NoDate, NoDate, "", NoBytes, NoBytes,
                   LvAll, NoDate, NoDate, <<>>),
     FilterRequest(<<"pdf", "image">>, << <<"T">> >>, << <<".", "p">> >>, 1, 1,
                   SizeRange, Bytes(0, 1), Bytes(3, GiB - DbFileBytes),
                   LvAll, NoDate, NoDate, <<>>) >>

Whole == [sort_mode |-> <<>>, limit |-> MaxItems + 1, offset |-> 0]
ByViewed == [sort_mode |-> <<"V","i","e","w","e","d"," ">>, limit |-> MaxItems + 1, offset |-> 0]
SecondByName == [sort_mode |-> SortName, limit |-> 1, offset |-> 1]
SecondByViewed == [sort_mode |-> SortViewed, limit |-> 1, offset |-> 1]

\* the calls of the model: every filter request for the owner's whole list,
\* and the unfiltered list in other orders, pages and for another user
QueryRequests ==
  {[sub |-> "alice", k |-> k, page |-> Whole] : k \in DOMAIN FilterRequests}
  \cup {[sub |-> "alice", k |-> 1, page |-> ByViewed],
        [sub |-> "bob", k |-> 1, page |-> ByViewed],
        [sub |-> "alice", k |-> 1, page |-> SecondByName],
        [sub |-> "alice", k |-> 1, page |-> SecondByViewed]}

\* the ? placeholders of a fragment in order, each as the condition it stands in
RECURSIVE Placeholders(_)
Placeholders(where_sql) ==
  IF where_sql = <<>> THEN <<>>
  ELSE [i \in 1..Head(where_sql).n |-> Head(where_sql)] \o Placeholders(Tail(where_sql))

UserSlot == Cond("lv", "user_sub", "=", 1)
LimitSlot == Cond("", "LIMIT", "", 1)
OffsetSlot == Cond("", "OFFSET", "", 1)

\* lines 222-241: the count statement and the parameters it is executed with
sql_count(where_sql, params) ==
  [placeholders |-> Placeholders(where_sql), args |-> params]

\* a page statement executed with the user after the fragment's parameters
sql_page_UserAfter(sub, where_sql, params, limit, offset) ==
  [placeholders |-> <<UserSlot>> \o Placeholders(where_sql) \o <<LimitSlot, OffsetSlot>>,
   args |-> params \o <<StrValue(sub)>> \o <<IntValue(Bytes(0, limit)), IntValue(Bytes(0, offset))>>]

\* lines 258-297: the page statement and the parameters it is executed with
sql_page(sub, where_sql, params, limit, offset) ==
  [placeholders |-> <<UserSlot>> \o Placeholders(where_sql) \o <<LimitSlot, OffsetSlot>>,
   args |-> <<StrValue(sub)>> \o params \o <<IntValue(Bytes(0, limit)), IntValue(Bytes(0, offset))>>]

\* query_items_page on u's two database files, for the fragment built from
\* the k-th filter request
Query(u, sub, k, p) ==
  /\ op = Idle
  /\ LET b == build_where_and_params(FilterRequests[k])
         count == sql_count(b.where_sql, b.params)
         page == sql_page(sub, b.where_sql, b.params, p.limit, p.offset)
         bound == SubSeq(page.args, 2, Len(page.args) - 2)
         limit == page.args[Len(page.args) - 1].bytes.b
         offset == page.args[Len(page.args)].bytes.b
         ensured == ensure_last_viewed_db(lvStatus[u])
         res == [Result("query_items_page", "", u, sub, 0, 0)
                   EXCEPT !.req = k, !.limit = p.limit, !.offset = p.offset,
                          !.at = p.sort_mode]
     IN  IF ensured # "ok"
         THEN /\ last' = [res EXCEPT !.outcome = ensured, !.fault = "ensure_last_viewed_db"]
              /\ UNCHANGED <<lvStatus, files>>
         ELSE /\ lvStatus' = [lvStatus EXCEPT ![u] = "ok"]
              /\ files' = [files EXCEPT ![u] = Connected(EnsuredLvFile(@))]
              /\ IF ~HasItemsTable(files[u])
                 THEN last' = [res EXCEPT !.outcome = "sqlite3.OperationalError",
                                          !.fault = "no such table: inbox_items"]
                 ELSE IF ~CountResolves(b.where_sql)
                 THEN last' = [res EXCEPT !.outcome = "sqlite3.OperationalError",
                                          !.fault = "no such column: lv"]
                 ELSE \E s \in Orderings({j \in Joined(items[u], lvRows[u], page.args[1].str) :
                                            Holds(b.where_sql, bound, j.it, j.lv)},
                                         NormalSortMode(p.sort_mode)) :
                        last' = [res EXCEPT
                                   !.outcome = "ok",
                                   !.total = CountTotal(items[u], b.where_sql, count.args),
                                   !.rows = [i \in DOMAIN Slice(s, limit, offset) |->
                                               PageRow(Slice(s, limit, offset)[i])]]
  /\ UNCHANGED <<now, nextId, items, lvRows, sendLog, op, other, otherLast, legacy, aux>>

----------------------------------------------------------------------------
(* inbox_ui.preview *)

\* lines 139 and 148: paths["pdf_preview"] / item_id / "p001.png" and
\* paths["word_preview"] / item_id / "preview.pdf"
PreviewPath(kind, item_id) ==
  Path("preview", kind, 0, item_id,
       IF kind = "pdf" THEN <<"p","0","0","1",".","p","n","g">>
       ELSE <<"p","r","e","v","i","e","w",".","p","d","f">>)

\* lines 134-210: what the call ends with for a file that exists; ok says
\* that the reader or converter of the kind worked, cached that the preview
\* file of an earlier call is there
Shown(raw_kind, suffix, ok, cached) ==
  IF raw_kind = "image" THEN (IF ok THEN "displayed" ELSE "OSError")
  ELSE IF raw_kind = "pdf" THEN (IF ok \/ cached THEN "displayed" ELSE "not displayed")
  ELSE IF raw_kind = "word" THEN (IF ok \/ cached THEN "displayed" ELSE "not displayed")
  ELSE IF raw_kind = "text" THEN (IF ok THEN "displayed" ELSE "not displayed")
  ELSE IF raw_kind = "excel"
  THEN (IF suffix = <<".","x","l","s">> THEN "not displayed"
        ELSE IF ok THEN "displayed" ELSE "not displayed")
  ELSE "not displayed"

\* touch_last_viewed(lv_db, user_sub, item_id, kind): the module
\* lib.inbox_common.last_viewed is not part of the sources; it is taken to
\* upsert the key with the current time
touch_last_viewed(rows, user_sub, item_id, kind) ==
  Upserted(rows, LvRow(user_sub, item_id, kind, now_iso_jst))

\* render_preview for a row of u's catalog
RenderPreview(u, item_id, ok) ==
  /\ op = Idle
  /\ item_id \in DOMAIN items[u]
  /\ LET selected == items[u][item_id]
         raw_kind == selected.kind
         path == selected.stored_rel
         res == [Result("render_preview", "", u, "", item_id, 0)
                   EXCEPT !.kind = raw_kind, !.at = now_iso_jst]
         ensured == ensure_last_viewed_db(lvStatus[u])
         out == PreviewPath(raw_kind, item_id)
         cached == out \in DOMAIN files[u]
         written == raw_kind \in {"pdf", "word"} /\ ok /\ ~cached
     IN  IF path \notin DOMAIN files[u]
         THEN /\ last' = [res EXCEPT !.outcome = "missing file"]
              /\ UNCHANGED <<lvStatus, lvRows, files>>
         ELSE IF ensured # "ok"
         THEN /\ last' = [res EXCEPT !.outcome = ensured, !.fault = "touch_last_viewed"]
              /\ UNCHANGED <<lvStatus, lvRows, files>>
         ELSE /\ lvStatus' = [lvStatus EXCEPT ![u] = "ok"]
              /\ lvRows' = [lvRows EXCEPT ![u] = touch_last_viewed(@, u, item_id, raw_kind)]
              /\ files' = [files EXCEPT ![u] =
                             IF written THEN Put(EnsuredLvFile(@), out, Bytes(0, PreviewBytes))
                             ELSE EnsuredLvFile(@)]
              /\ last' = [res EXCEPT
                            !.outcome = Shown(raw_kind, Lower(Suffix(FileName(path))), ok, cached)]
  /\ UNCHANGED <<now, nextId, items, sendLog, op, other, otherLast, legacy, aux>>

----------------------------------------------------------------------------
(* The inbox of one user seen through the search page: ingest, views, query *)

Viewer == "alice"

NextView ==
  \/ Tick
  \/ \E r \in IngestRequests : IngestCheck(Viewer, r)
  \/ IngestWrite
  \/ IngestInsert
  \/ IngestThumb
  \/ \E i \in Ids, t \in 1..MaxTime : UpsertLastViewed(Viewer, i, "pdf", TextArg(Iso(t)))
  \/ \E how \in LvDamages : LvDamage(Viewer, how)
  \/ \E q \in QueryRequests : Query(Viewer, q.sub, q.k, q.page)

SpecView == Init /\ [][NextView]_vars

----------------------------------------------------------------------------
(* The last-viewed store alone: every argument of upsert_last_viewed *)

NextUpsert ==
  \/ \E i \in Ids, k \in ViewKinds, t \in ViewedAtArgs : UpsertLastViewed(Viewer, i, k, t)
  \/ \E how \in LvDamages : LvDamage(Viewer, how)

SpecUpsert == Init /\ [][NextUpsert]_vars

----------------------------------------------------------------------------
(* The life of an item and of its last-viewed row: alice ingests, sends to *)
(* bob, looks at her items and deletes; bob deletes                        *)

NextLife ==
  \/ Tick
  \/ \E r \in IngestRequests : IngestCheck(Viewer, r)
  \/ IngestWrite
  \/ IngestInsert
  \/ IngestThumb
  \/ \E i \in Ids : SendCheck(Viewer, "bob", i)
  \/ SendWrite
  \/ SendInsert
  \/ SendThumb
  \/ SendLog
  \/ \E u \in Users, i \in Ids : DeleteFetch(u, i)
  \/ DeleteFile
  \/ DeleteThumb
  \/ DeleteRow
  \/ DeleteStops
  \/ \E i \in Ids, ok \in BOOLEAN : RenderPreview(Viewer, i, ok)
  \/ \E i \in Ids : UpsertLastViewed(Viewer, i, "pdf", TextArg(now_iso_jst))

SpecLife == Init /\ [][NextLife]_vars

-----------------------------------------------------------------------------
(* Calls of the update helpers of inbox_db.items_db and of                 *)
(* ensure_thumb_for_item on rows of the catalog                            *)

NewTags == {<<" ", "\"", "u", " ">>, <<>>}
Notes == {<<"n">>}
ThumbStatuses == {"", "ok"}

UpdateItemTagSingle(u, item_id, new_tag) ==
  /\ op = Idle
  /\ files' = [files EXCEPT ![u] = ensure_items_db(@)]
  /\ items' = [items EXCEPT ![u] = update_item_tag_single(@, item_id, new_tag)]
  /\ last' = Result("update_item_tag_single", "ok", u, "", item_id, 0)
  /\ UNCHANGED <<now, nextId, lvStatus, lvRows, sendLog, op, other, otherLast, legacy, aux>>

UpdateItemNote(u, item_id, note) ==
  /\ op = Idle
  /\ files' = [files EXCEPT ![u] = ensure_items_db(@)]
  /\ items' = [items EXCEPT ![u] = update_item_note(@, item_id, note)]
  /\ last' = Result("update_item_note", "ok", u, "", item_id, 0)
  /\ UNCHANGED <<now, nextId, lvStatus, lvRows, sendLog, op, other, otherLast, legacy, aux>>

UpdateThumb(u, item_id, thumb_rel, status) ==
  /\ op = Idle
  /\ files' = [files EXCEPT ![u] = ensure_items_db(@)]
  /\ items' = [items EXCEPT ![u] = update_thumb(@, item_id, thumb_rel, status)]
  /\ last' = Result("update_thumb", "ok", u, "", item_id, 0)
  /\ UNCHANGED <<now, nextId, lvStatus, lvRows, sendLog, op, other, otherLast, legacy, aux>>

\* what a caller passes as current_thumb_rel and current_thumb_status: nothing
\* (the defaults), the values the row records, or "none" and no thumbnail
CurrentThumbArgs(row) ==
  { [rel |-> NoPath, status |-> ""],
    [rel |-> row.thumb_rel, status |-> row.thumb_status],
    [rel |-> NoPath, status |-> "none"] }

\* whether ensure_thumb_for_item gets to one of its update_thumb calls
\* (lines 124, 144, 155, 159)
CallsUpdateThumb(f, kind, current_thumb_rel, current_thumb_status) ==
  IF kind # "image"
  THEN current_thumb_status # "none" \/ current_thumb_rel # NoPath
  ELSE ~(current_thumb_status = "ok" /\ current_thumb_rel # NoPath
         /\ current_thumb_rel \in DOMAIN f)

\* ensure_thumb_for_item called for a row of the catalog, with the row's kind
\* and stored_rel.  update_thumb stands in no try block: when it raises, the
\* call raises, after the thumbnail file may have been written.
EnsureThumb(u, item_id) ==
  /\ op = Idle
  /\ item_id \in DOMAIN items[u]
  /\ \E told \in CurrentThumbArgs(items[u][item_id]), decoded \in BOOLEAN, raises \in BOOLEAN :
       LET row == items[u][item_id]
           t == ensure_thumb_for_item(u, items[u], files[u], item_id, row.kind,
                                      row.stored_rel, told.rel, told.status, decoded)
           res == [Result("ensure_thumb_for_item", t.status, u, "", item_id, 0)
                     EXCEPT !.kind = row.kind, !.current_thumb_rel = told.rel,
                            !.current_thumb_status = told.status]
       IN  /\ raises => CallsUpdateThumb(files[u], row.kind, told.rel, told.status)
           /\ files' = [files EXCEPT ![u] = t.f]
           /\ IF raises
              THEN /\ last' = [res EXCEPT !.outcome = "sqlite3.Error", !.fault = "update_thumb"]
                   /\ UNCHANGED items
              ELSE /\ last' = res
                   /\ items' = [items EXCEPT ![u] = t.tbl]
  /\ UNCHANGED <<now, nextId, lvStatus, lvRows, sendLog, op, other, otherLast, legacy, aux>>

NextEdit ==
  \/ \E r \in IngestRequests : IngestCheck(Viewer, r)
  \/ IngestWrite
  \/ IngestInsert
  \/ IngestThumb
  \/ \E i \in Ids : SendCheck(Viewer, "bob", i)
  \/ SendWrite
  \/ SendInsert
  \/ SendThumb
  \/ SendLog
  \/ \E i \in Ids, t \in NewTags : UpdateItemTagSingle(Viewer, i, t)
  \/ \E i \in Ids, n \in Notes : UpdateItemNote(Viewer, i, n)
  \/ \E i \in Ids, st \in ThumbStatuses :
        UpdateThumb(Viewer, i, IF st = "ok" THEN thumb_path_for_item(i) ELSE NoPath, st)
  \/ \E i \in Ids : EnsureThumb(Viewer, i)

SpecEdit == Init /\ [][NextEdit]_vars

-----------------------------------------------------------------------------
(* Ingest, send and delete with no call of delete_item cut short: alice    *)
(* ingests, sends to bob and deletes; bob deletes                          *)

NextWhole ==
  \/ Tick
  \/ \E r \in IngestRequests : IngestCheck(Viewer, r)
  \/ IngestWrite
  \/ IngestInsert
  \/ IngestThumb
  \/ \E i \in Ids : SendCheck(Viewer, "bob", i)
  \/ SendWrite
  \/ SendInsert
  \/ SendThumb
  \/ SendLog
  \/ \E u \in Users, i \in Ids : DeleteFetch(u, i)
  \/ DeleteFile
  \/ DeleteThumb
  \/ DeleteRow

SpecWhole == Init /\ [][NextWhole]_vars

-----------------------------------------------------------------------------
(* Two processes ingest for the same user: ingest_to_inbox takes no lock,  *)
(* so the steps of the two calls interleave freely                         *)

OtherIngestCheck(u, r) == IngestCheckBy(other, other', otherLast, otherLast', u, r) /\ UNCHANGED <<op, last, legacy, aux>>

OtherIngestWrite == IngestWriteBy(other, other', otherLast, otherLast') /\ UNCHANGED <<op, last, legacy, aux>>

OtherIngestInsert == IngestInsertBy(other, other', otherLast, otherLast') /\ UNCHANGED <<op, last, legacy, aux>>

OtherIngestThumb == IngestThumbBy(other, other', otherLast, otherLast') /\ UNCHANGED <<op, last, legacy, aux>>

NextRace ==
  \/ \E r \in IngestRequests : IngestCheck(Viewer, r)
  \/ IngestWrite
  \/ IngestInsert
  \/ IngestThumb
  \/ \E r \in IngestRequests : OtherIngestCheck(Viewer, r)
  \/ OtherIngestWrite
  \/ OtherIngestInsert
  \/ OtherIngestThumb

SpecRace == Init /\ [][NextRace]_vars

-----------------------------------------------------------------------------
(* ensure_items_db on the catalog file of an older version                 *)

MaxCalls == 2

\* subsequence of s at the positions whose column name is in names
RECURSIVE Keep(_, _)
Keep(s, names) ==
  IF s = <<>> THEN <<>>
  ELSE (IF Head(s).name \in names THEN <<Head(s)>> ELSE <<>>) \o Keep(Tail(s), names)

\* a note column as a first version might have declared it
OldNote == ColumnInfo("note", "INTEGER", FALSE, "0", FALSE)

\* the tables an older version may have left: the base columns, then any of
\* the newer columns (origin_user possibly before the others, note possibly
\* declared differently), with no row or one row
LegacyColumns ==
  { BaseColumns \o first \o Keep(NewerColumns, names \ ColumnNames(first)) :
      names \in SUBSET ColumnNames(NewerColumns),
      first \in {<<>>, <<NewerColumns[6]>>, <<OldNote>>} }

LegacyRow(cols) ==
  [k \in DOMAIN cols |-> IF cols[k].name = "size_bytes" THEN "3"
                         ELSE IF cols[k].name = "note" THEN "7"
                         ELSE "'x'"]

LegacyTables ==
  {NoTable} \cup
  { Table(TRUE, cols, rows, idx, 0) :
      cols \in LegacyColumns, rows \in {<<>>} , idx \in {{}} } \cup
  { Table(TRUE, cols, <<LegacyRow(cols)>>, {"idx_inbox_kind"}, 0) : cols \in LegacyColumns }

InitLegacy ==
  /\ now = 1
  /\ nextId = 1
  /\ items = [u \in Users |-> <<>>]
  /\ files = [u \in Users |-> <<>>]
  /\ lvStatus = [u \in Users |-> "absent"]
  /\ lvRows = [u \in Users |-> {}]
  /\ sendLog = <<>>
  /\ op = Idle
  /\ last = NoResult
  /\ other = Idle
  /\ otherLast = NoResult
  /\ legacy \in LegacyTables
  /\ NoCall

EnsureItemsDb ==
  /\ legacy.calls < MaxCalls
  /\ legacy' = [ensure_items_db_table(legacy) EXCEPT !.calls = legacy.calls + 1]
  /\ UNCHANGED <<now, nextId, items, files, lvStatus, lvRows, sendLog, op, last, other, otherLast, aux>>

NextLegacy == EnsureItemsDb

SpecLegacy == InitLegacy /\ [][NextLegacy]_vars

-----------------------------------------------------------------------------
(* inbox_query.query_builder.split_terms_and, called on its own *)

MaxLen == 3

\* re.split(r"[,\s/／]+", ...): the characters of the class ("U+FF0F" is the
\* full-width slash)
SplitClass == {",", "/", "U+FF0F"} \cup WhiteSpace

\* the parts re.split returns: the text between the runs of class characters,
\* with an empty part before a leading run and after a trailing one
RECURSIVE ReSplit(_)
ReSplit(s) ==
  IF \A i \in DOMAIN s : s[i] \notin SplitClass
  THEN <<s>>
  ELSE LET i == CHOOSE k \in DOMAIN s : s[k] \in SplitClass /\ \A j \in 1..(k - 1) : s[j] \notin SplitClass
           RECURSIVE RunEnd(_)
           RunEnd(k) == IF k < Len(s) /\ s[k + 1] \in SplitClass THEN RunEnd(k + 1) ELSE k
       IN  <<SubSeq(s, 1, i - 1)>> \o ReSplit(SubSeq(s, RunEnd(i) + 1, Len(s)))

\* the loop of split_terms_and: the stripped parts that are not empty
RECURSIVE StrippedNonEmpty(_)
StrippedNonEmpty(parts) ==
  IF parts = <<>> THEN <<>>
  ELSE LET t == Strip(Head(parts))
       IN  (IF t # <<>> THEN <<t>> ELSE <<>>) \o StrippedNonEmpty(Tail(parts))

split_terms_and(s) ==
  IF s = <<>> THEN <<>> ELSE StrippedNonEmpty(ReSplit(Strip(s)))

RECURSIVE TextsUpTo(_, _)
TextsUpTo(chars, n) ==
  IF n = 0 THEN {<<>>}
  ELSE LET shorter == TextsUpTo(chars, n - 1)
       IN  shorter \cup {Append(t, c) : t \in shorter, c \in chars}

\* "U+FF0C" is the full-width comma
TermChars == {"a", "b", ",", " ", "/", "U+3000", "U+FF0F", "U+FF0C"}

InitSplit == EmptyInbox /\ arg \in TextsUpTo(TermChars, MaxLen) /\ ret = <<>> /\ Quiet

SplitTermsAnd ==
  /\ ret = <<>>
  /\ ret' = <<split_terms_and(arg)>>
  /\ UNCHANGED <<inbox, arg, others>>

NextSplit == SplitTermsAnd

SpecSplit == InitSplit /\ [][NextSplit]_vars

-----------------------------------------------------------------------------
(* inbox_common.utils.detect_kind, called on its own *)

UpperChar(c) ==
  IF \E i \in DOMAIN LowerAlpha : LowerAlpha[i] = c
  THEN UpperAlpha[CHOOSE i \in DOMAIN LowerAlpha : LowerAlpha[i] = c]
  ELSE c

\* the spellings of a text in lower case, in upper case and in two mixed cases
Cases(s) ==
  { s, [i \in DOMAIN s |-> UpperChar(s[i])],
    [i \in DOMAIN s |-> IF i % 2 = 0 THEN UpperChar(s[i]) ELSE s[i]],
    [i \in DOMAIN s |-> IF i % 2 = 1 THEN UpperChar(s[i]) ELSE s[i]] }

ListedExts == ExtPdf \cup ExtWord \cup ExtExcel \cup {<<".","x","l","s">>} \cup ExtPpt \cup ExtText \cup ExtImage

UnlistedExts == {<<".","z","i","p">>, <<".","x","l","s","b">>, <<".","p","d">>, <<".","m","p","4">>}

Stems == {<<"a">>, <<"a",".","b">>, <<"a",".","p","d","f">>}

\* names with no extension: no dot, a leading dot only, a trailing dot
BareNames == {<<"a">>, <<".","p","d","f">>, <<"a",".">>, <<"a",".","p","d","f",".">>, <<>>}

FileNames ==
  {stem \o c : stem \in Stems, c \in UNION {Cases(e) : e \in ListedExts \cup UnlistedExts}} \cup BareNames

InitKind == EmptyInbox /\ arg \in FileNames /\ ret = <<>> /\ Quiet

DetectKind ==
  /\ ret = <<>>
  /\ ret' = <<detect_kind(arg)>>
  /\ UNCHANGED <<inbox, arg, others>>

NextKind == DetectKind

SpecKind == InitKind /\ [][NextKind]_vars

-----------------------------------------------------------------------------
(* build_where_and_params and the two statements of query_items_page, for
   every combination of the filters of the search page *)

TermT == <<"T">>
TermP == <<".", "p">>
TermQ == <<"q">>

SizeFilters ==
  { <<"", NoBytes, NoBytes>>, <<SizeAtLeast, Bytes(0, 1), NoBytes>>, <<SizeAtLeast, NoBytes, Bytes(0, 5)>>,
    <<SizeAtMost, NoBytes, Bytes(0, 5)>>, <<SizeRange, Bytes(0, 1), Bytes(0, 5)>>,
    <<SizeRange, NoBytes, Bytes(0, 5)>>, <<SizeRange, NoBytes, NoBytes>> }

LvFilters ==
  { <<LvAll, NoDate, NoDate, <<>> >>, <<LvUnviewedOnly, NoDate, NoDate, <<>> >>,
    <<LvDateRange, NoDate, NoDate, <<>> >>, <<LvDateRange, 1, 2, <<>> >>, <<LvDateRange, 1, NoDate, <<>> >>,
    <<LvRecent, NoDate, NoDate, Iso(MaxTime)>>, <<LvRecent, NoDate, NoDate, <<>> >> }

WhereRequests ==
  { FilterRequest(k, t, n, af, at, sz[1], sz[2], sz[3], lv[1], lv[2], lv[3], lv[4]) :
      k \in {<<>>, <<"pdf">>, <<"image", "pdf">>}, t \in {<<>>, <<TermT>>},
      n \in {<<>>, <<TermP>>, <<TermP, TermQ>>}, af \in {NoDate, 1}, at \in {NoDate, 2},
      sz \in SizeFilters, lv \in LvFilters }

InitWhere ==
  /\ EmptyInbox
  /\ arg \in [req : WhereRequests, sub : {"alice"}, limit : {MaxItems + 1}, offset : {1}]
  /\ ret = <<>>
  /\ Quiet

\* build_where_and_params, then the statements query_items_page runs with
\* its result
BuildAndBind ==
  /\ ret = <<>>
  /\ LET b == build_where_and_params(arg.req)
     IN  ret' = <<[built |-> b,
                   count |-> sql_count(b.where_sql, b.params),
                   page |-> sql_page(arg.sub, b.where_sql, b.params, arg.limit, arg.offset)]>>
  /\ UNCHANGED <<inbox, arg, others>>

NextWhere == BuildAndBind

SpecWhere == InitWhere /\ [][NextWhere]_vars

-----------------------------------------------------------------------------
(* inbox_common.utils.safe_filename, called on its own with a small max_len *)

MaxName == 5

NameChars == {"a", ".", "_", "/", " "}

MaxLens == {3, 4}

InitName ==
  /\ EmptyInbox
  /\ arg \in [name : TextsUpTo(NameChars, MaxName), max_len : MaxLens]
  /\ ret = <<>>
  /\ Quiet

SafeFilename ==
  /\ ret = <<>>
  /\ ret' = <<safe_filename(arg.name, arg.max_len)>>
  /\ UNCHANGED <<inbox, arg, others>>

NextName == SafeFilename

SpecName == InitName /\ [][NextName]_vars

-----------------------------------------------------------------------------
(* ensure_last_viewed_db on the last_viewed.db file of an older version: the
   variable legacy holds table last_viewed of that file *)

\* lines 134-140 of CREATE TABLE
LvColumns ==
  << ColumnInfo("user_sub", "TEXT", TRUE, "NULL", TRUE),
     ColumnInfo("item_id", "TEXT", TRUE, "NULL", TRUE),
     ColumnInfo("kind", "TEXT", TRUE, "NULL", FALSE),
     ColumnInfo("last_viewed_at", "TEXT", TRUE, "NULL", FALSE) >>

\* lines 145-150: the indexes and the columns each is on
LvIndexes ==
  << [name |-> "idx_last_viewed_user_kind", on |-> {"user_sub", "kind"}],
     [name |-> "idx_last_viewed_last_viewed_at", on |-> {"last_viewed_at"}] >>

\* line 157
LvRequired == {"user_sub", "item_id", "kind", "last_viewed_at"}

\* CREATE INDEX IF NOT EXISTS, one statement after the other, each committed
\* as it runs: a statement on a column the table lacks raises and ends the call
RECURSIVE CreateLvIndexes(_, _)
CreateLvIndexes(t, k) ==
  IF k > Len(LvIndexes) THEN [table |-> t, outcome |-> "ok", missing |-> {}]
  ELSE IF LvIndexes[k].name \in t.indexes THEN CreateLvIndexes(t, k + 1)
  ELSE IF LvIndexes[k].on \subseteq ColumnNames(t.cols)
  THEN CreateLvIndexes([t EXCEPT !.indexes = @ \cup {LvIndexes[k].name}], k + 1)
  ELSE [table |-> t, outcome |-> "sqlite3.OperationalError", missing |-> {}]

\* lines 115-164: the table the call leaves, how it ends and the columns a
\* RuntimeError reports
ensure_last_viewed_db_table(t) ==
  LET made == IF t.exists THEN t ELSE Table(TRUE, LvColumns, <<>>, {}, t.calls)
      indexed == CreateLvIndexes(made, 1)
      missing == LvRequired \ ColumnNames(indexed.table.cols)
  IN  IF indexed.outcome # "ok" THEN indexed
      ELSE IF missing # {} THEN [indexed EXCEPT !.outcome = "RuntimeError", !.missing = missing]
      ELSE indexed

\* a column an older version named differently
OldViewedAt == ColumnInfo("viewed_at", "TEXT", FALSE, "NULL", FALSE)

\* the tables an older version may have left: any of the required columns,
\* possibly an old column behind them, no row or one row, any index whose
\* columns the table has
LvLegacyColumns ==
  { Keep(LvColumns, names) \o old : names \in SUBSET LvRequired, old \in {<<>>, <<OldViewedAt>>} } \ {<<>>}

LvLegacyTables ==
  {NoTable} \cup
  UNION { { Table(TRUE, cols, rows, idx, 0) :
              rows \in {<<>>, <<[k \in DOMAIN cols |-> "'x'"]>>},
              idx \in SUBSET {LvIndexes[k].name : k \in DOMAIN LvIndexes} } : cols \in LvLegacyColumns }

\* an index is on columns the table has, a row has a value for every column
SoundLvTable(t) ==
  /\ \A k \in DOMAIN LvIndexes : LvIndexes[k].name \in t.indexes => LvIndexes[k].on \subseteq ColumnNames(t.cols)
  /\ \A k \in DOMAIN t.rows : Len(t.rows[k]) = Len(t.cols)

InitLvLegacy ==
  /\ now = 1
  /\ nextId = 1
  /\ items = [u \in Users |-> <<>>]
  /\ files = [u \in Users |-> <<>>]
  /\ lvStatus = [u \in Users |-> "absent"]
  /\ lvRows = [u \in Users |-> {}]
  /\ sendLog = <<>>
  /\ op = Idle
  /\ last = NoResult
  /\ other = Idle
  /\ otherLast = NoResult
  /\ legacy \in {t \in LvLegacyTables : SoundLvTable(t)}
  /\ NoCall

EnsureLastViewedDb ==
  /\ legacy.calls < MaxCalls
  /\ LET e == ensure_last_viewed_db_table(legacy)
     IN  /\ legacy' = [e.table EXCEPT !.calls = legacy.calls + 1]
         /\ ret' = <<[outcome |-> e.outcome, missing |-> e.missing]>>
  /\ UNCHANGED <<now, nextId, items, files, lvStatus, lvRows, sendLog, op, last, other, otherLast, arg, others>>

NextLvLegacy == EnsureLastViewedDb

SpecLvLegacy == InitLvLegacy /\ [][NextLvLegacy]_vars

-----------------------------------------------------------------------------
(* sessions: recorder.record_heartbeat, recorder.record_logout and
   sampler.maybe_sample_minute on one sessions.db file, called from the
   script runs of several browser sessions.  Time is in seconds and passes in
   steps of the heartbeat interval. *)

HeartbeatSec == 30
TtlSec == 120
SampleSec == 60

MaxTicks == 2

\* the calls of the recorder and of the sampler the model follows
MaxRecords == 3
MaxSamples == 3

AppName == "command_station_app"

\* the script runs that may be inside maybe_sample_minute at the same time
Runs == {1, 2}

\* a row of session_state (the session_id is the user's browser session)
SessionRow(present, last_seen, logged_out) ==
  [present |-> present, last_seen |-> last_seen, logged_out |-> logged_out]

\* a call of maybe_sample_minute: its position and its locals
SampleCall(pc, now_, active_sessions, user_list) ==
  [pc |-> pc, now |-> now_, active_sessions |-> active_sessions, user_list |-> user_list]

NotSampling == SampleCall("idle", 0, 0, {})

\* time_utils.floor_to_minute and date_str_jst (the model stays within one day)
floor_to_minute(t) == t - (t % SampleSec)
date_str_jst(t) == t \div 86400

\* an empty sessions.db; observed and credits record, for every user and
\* bucket, whether some call listed the user as active in it and how often
\* the user's active_minutes was raised for it
InitSessions ==
  [exists |-> TRUE, clock |-> 0, recorded |-> 0, sampled |-> 0,
   state |-> [u \in Users |-> SessionRow(FALSE, 0, FALSE)],
   active_samples |-> {},
   user_app_daily |-> {},
   calls |-> [p \in Runs |-> NotSampling],
   observed |-> {},
   credits |-> [k \in Users \X {b * SampleSec : b \in 0..MaxTicks} |-> 0]]

InitSampler == EmptyInbox /\ arg = <<>> /\ ret = <<>> /\ session_state = [page |-> NoPage] /\ sess = InitSessions

ClockTick ==
  /\ sess.clock < MaxTicks * HeartbeatSec
  /\ sess' = [sess EXCEPT !.clock = @ + HeartbeatSec]
  /\ UNCHANGED <<inbox, arg, ret, session_state>>

\* record_heartbeat: upsert with last_seen = now and logout_at = NULL
RecordHeartbeat(u) ==
  /\ sess.recorded < MaxRecords
  /\ sess' = [sess EXCEPT !.state[u] = SessionRow(TRUE, sess.clock, FALSE), !.recorded = @ + 1]
  /\ UNCHANGED <<inbox, arg, ret, session_state>>

\* record_logout: UPDATE ... WHERE session_id = ?
RecordLogout(u) ==
  /\ sess.recorded < MaxRecords
  /\ sess.state[u].present
  /\ sess' = [sess EXCEPT !.state[u] = SessionRow(TRUE, sess.clock, TRUE), !.recorded = @ + 1]
  /\ UNCHANGED <<inbox, arg, ret, session_state>>

\* WHERE app_name = ? AND logout_at IS NULL AND last_seen >= datetime(now, -ttl)
ActiveAt(t) ==
  {u \in Users : sess.state[u].present /\ ~sess.state[u].logged_out /\ sess.state[u].last_seen >= t - TtlSec}

\* lines 70-74 and the first SELECT of _list_active_users_and_sessions
SampleCount(p) ==
  /\ sess.calls[p].pc = "idle"
  /\ sess.sampled < MaxSamples
  /\ sess' = [sess EXCEPT !.calls[p] = SampleCall("counted", sess.clock, Cardinality(ActiveAt(sess.clock)), {}),
                           !.sampled = @ + 1]
  /\ UNCHANGED <<inbox, arg, ret, session_state>>

\* the second SELECT of _list_active_users_and_sessions
SampleList(p) ==
  /\ sess.calls[p].pc = "counted"
  /\ LET c == sess.calls[p]
         user_list == ActiveAt(c.now)
     IN  sess' = [sess EXCEPT !.calls[p] = [c EXCEPT !.pc = "listed", !.user_list = user_list],
                              !.observed = @ \cup (user_list \X {floor_to_minute(c.now)})]
  /\ UNCHANGED <<inbox, arg, ret, session_state>>

SampleRow(bucket_ts, active_users, active_sessions, peak_users, peak_sessions, sampled_at) ==
  [bucket_ts |-> bucket_ts, app_name |-> AppName, active_users |-> active_users,
   active_sessions |-> active_sessions, peak_users |-> peak_users,
   peak_sessions |-> peak_sessions, sampled_at |-> sampled_at]

DailyRow(date, user_sub, active_minutes, peak_users_day, peak_sessions_day, updated_at) ==
  [date |-> date, user_sub |-> user_sub, app_name |-> AppName, active_minutes |-> active_minutes,
   peak_users_day |-> peak_users_day, peak_sessions_day |-> peak_sessions_day,
   updated_at |-> updated_at]

Larger(a, b) == IF a < b THEN b ELSE a

\* lines 83-130: INSERT OR IGNORE, then UPDATE, of the bucket's row
SampledBy(samples, c) ==
  LET bucket == floor_to_minute(c.now)
      n == Cardinality(c.user_list)
      old == {r \in samples : r.bucket_ts = bucket /\ r.app_name = AppName}
      had == IF old = {} THEN SampleRow(bucket, n, c.active_sessions, n, c.active_sessions, c.now)
             ELSE CHOOSE r \in old : TRUE
  IN  (samples \ old) \cup
      {SampleRow(bucket, n, c.active_sessions, Larger(had.peak_users, n),
                 Larger(had.peak_sessions, c.active_sessions), c.now)}

\* lines 144-174: the upsert of user_app_daily for one listed user
DailyUpsert(daily, c, u) ==
  LET n == Cardinality(c.user_list)
      old == {r \in daily : r.date = date_str_jst(c.now) /\ r.user_sub = u /\ r.app_name = AppName}
  IN  IF old = {} THEN daily \cup {DailyRow(date_str_jst(c.now), u, 1, 0, 0, c.now)}
      ELSE LET r == CHOOSE r \in old : TRUE
           IN  (daily \ old) \cup
               {DailyRow(r.date, u, r.active_minutes + 1, Larger(r.peak_users_day, n),
                         Larger(r.peak_sessions_day, c.active_sessions), c.now)}

RECURSIVE DailyUpserts(_, _, _)
DailyUpserts(daily, c, users) ==
  IF users = {} THEN daily
  ELSE LET u == CHOOSE u \in users : TRUE
       IN  DailyUpserts(DailyUpsert(daily, c, u), c, users \ {u})

\* a sampler that credits the listed users on every call
FirstTimeThisBucket_Always(samples, c) == TRUE

\* lines 107-109: changes() = 1 after INSERT OR IGNORE
FirstTimeThisBucket(samples, c) ==
  ~\E r \in samples : r.bucket_ts = floor_to_minute(c.now) /\ r.app_name = AppName

\* lines 83-177: the write transaction of the call, which SQLite runs alone
\* (a second writer waits for the commit)
SampleWrite(p) ==
  /\ sess.calls[p].pc = "listed"
  /\ LET c == sess.calls[p]
         first_time_this_bucket == FirstTimeThisBucket(sess.active_samples, c)
     IN  sess' = [sess EXCEPT
                    !.active_samples = SampledBy(@, c),
                    !.user_app_daily = IF first_time_this_bucket THEN DailyUpserts(@, c, c.user_list) ELSE @,
                    !.credits = [k \in DOMAIN @ |->
                                   IF first_time_this_bucket /\ k[1] \in c.user_list /\ k[2] = floor_to_minute(c.now)
                                   THEN @[k] + 1 ELSE @[k]],
                    !.calls[p] = NotSampling]
  /\ UNCHANGED <<inbox, arg, ret, session_state>>

NextSampler ==
  \/ ClockTick
  \/ \E u \in Users : RecordHeartbeat(u)
  \/ \E u \in Users : RecordLogout(u)
  \/ \E p \in Runs : SampleCount(p)
  \/ \E p \in Runs : SampleList(p)
  \/ \E p \in Runs : SampleWrite(p)

SpecSampler == InitSampler /\ [][NextSampler]_vars

-----------------------------------------------------------------------------
(* inbox_ui.file_picker: the picker of one browser session on the viewer's
   inbox, while the viewer ingests and deletes *)

PageSize == 1

\* the argument kinds: None (the empty sequence here) or a list of kinds
PickerKinds == << <<>>, <<"image">> >>

\* lines 65-139: the rows and the total, or the exception of the first SELECT
\* (s is the order SQLite returns the matching rows in)
Matching(u, kinds) ==
  {i \in DOMAIN items[u] : kinds = <<>> \/ \E k \in DOMAIN kinds : items[u][i].kind = kinds[k]}

ByAddedAt(u, kinds) ==
  Orderings({[it |-> items[u][i], lv |-> NullLv] : i \in Matching(u, kinds)}, SortNewest)

query_inbox_items_page(u, limit, offset, kinds, s) ==
  IF items_db_path \notin DOMAIN files[u] THEN [outcome |-> "ok", rows |-> <<>>, total |-> 0]
  ELSE IF ~HasItemsTable(files[u])
  THEN [outcome |-> "sqlite3.OperationalError", rows |-> <<>>, total |-> 0]
  ELSE [outcome |-> "ok",
        rows |-> [k \in DOMAIN Slice(s, limit, offset) |-> Slice(s, limit, offset)[k].it.item_id],
        total |-> Cardinality(Matching(u, kinds))]

\* lines 184-297: one script run up to the navigation buttons; click is the
\* button the user pressed in the run before ("" for none)
RenderPicker(u, kindsNo, click) ==
  /\ op = Idle
  /\ LET kinds == PickerKinds[kindsNo]
         stored == IF session_state.page = NoPage THEN 0 ELSE session_state.page
         res == [Result("inbox_file_picker", "", u, "", 0, 0) EXCEPT !.req = kindsNo, !.limit = PageSize]
     IN  \E s1 \in ByAddedAt(u, kinds), s2 \in ByAddedAt(u, kinds) :
           LET q1 == query_inbox_items_page(u, PageSize, stored * PageSize, kinds, s1)
               last_page == IF q1.total > 0 THEN (q1.total - 1) \div PageSize ELSE 0
               page_index == IF stored > last_page THEN last_page ELSE stored
               q == IF stored > last_page
                    THEN query_inbox_items_page(u, PageSize, page_index * PageSize, kinds, s2)
                    ELSE q1
           IN  IF q1.outcome # "ok"
               THEN /\ click = ""
                    /\ last' = [res EXCEPT !.outcome = q1.outcome, !.offset = stored * PageSize]
                    /\ session_state' = [page |-> stored]
               ELSE IF q1.total <= 0 \/ q1.rows = <<>>
               THEN /\ click = ""
                    /\ last' = [res EXCEPT !.outcome = "no files", !.offset = stored * PageSize, !.total = q1.total]
                    /\ session_state' = [page |-> stored]
               ELSE IF click = "prev"
               THEN /\ page_index > 0
                    /\ last' = [res EXCEPT !.outcome = "rerun", !.offset = page_index * PageSize, !.total = q.total]
                    /\ session_state' = [page |-> page_index - 1]
               ELSE IF click = "next"
               THEN /\ page_index < last_page
                    /\ last' = [res EXCEPT !.outcome = "rerun", !.offset = page_index * PageSize, !.total = q.total]
                    /\ session_state' = [page |-> page_index + 1]
               ELSE /\ last' = [res EXCEPT !.outcome = "listed", !.offset = page_index * PageSize,
                                           !.total = q.total, !.rows = q.rows]
                    /\ session_state' = [page |-> page_index]
  /\ UNCHANGED <<now, nextId, items, files, lvStatus, lvRows, sendLog, op, other, otherLast, legacy, arg, ret, sess>>

\* the picker of the page is called with the same kinds in every run
InitPicker == EmptyInbox /\ arg \in DOMAIN PickerKinds /\ ret = <<>> /\ Quiet

PickerRequests == { [filename |-> NameReport, size |-> Bytes(0, 1), tags_json |-> TagsT],
                    [filename |-> NamePhoto,  size |-> Bytes(0, 2), tags_json |-> <<>>] }

NextPicker ==
  \/ Tick
  \/ \E r \in PickerRequests : IngestCheck(Viewer, r)
  \/ IngestWrite
  \/ IngestInsert
  \/ IngestThumb
  \/ \E i \in Ids : DeleteFetch(Viewer, i)
  \/ DeleteFile
  \/ DeleteThumb
  \/ DeleteRow
  \/ \E click \in {"", "prev", "next"} : RenderPicker(Viewer, arg, click)

SpecPicker == InitPicker /\ [][NextPicker]_vars

----------------------------------------------------------------------------
(* Properties of ingest, send and delete *)

\* the stored files of item id under u's root (backing file and thumbnail)
FilesOf(u, id) == {p \in DOMAIN files[u] : p.area \in {"files", "thumbs"} /\ p.id = id}

\* the user whose catalog the last call wrote to
Target(r) == IF r.op = "send_item_copy" THEN r.peer ELSE r.user

\* C1: when insert_item fails after the file was written, ingest_to_inbox and
\* send_item_copy end with IngestFailed, the written file is gone and the
\* catalog has no row for the new item id.
C1_InsertFailureRollsBack ==
  (op = Idle /\ last.fault = "insert_item") =>
     /\ last.op \in {"ingest_to_inbox", "send_item_copy"}
     /\ last.outcome = "IngestFailed"
     /\ FilesOf(Target(last), last.new_id) = {}
     /\ last.new_id \notin DOMAIN items[Target(last)]

C1_Witness ==
  /\ op = Idle /\ last.op = "send_item_copy" /\ last.fault = "insert_item"
  /\ last.outcome = "IngestFailed"
  /\ FilesOf(last.peer, last.new_id) = {}

\* current + incoming > quota, computed on the difference to the quota
Exceeds(c, i, q) ==
  LET dg == c.g + i.g - q.g
      db == c.b + i.b - q.b
  IN  dg >= 1 \/ (dg = 0 /\ db > 0) \/ (dg = -1 /\ db > GiB)

\* C2 (state): ingest_to_inbox raises QuotaExceeded exactly when current +
\* incoming > quota, with the user's folder size, the data length and 5 GiB
\* as (current, incoming, quota).
C2_Check ==
  (last.op = "ingest_to_inbox") =>
     /\ last.quota = Bytes(5, 0)
     /\ \E r \in IngestRequests : last.incoming = r.size
     /\ (last.outcome = "QuotaExceeded") <=> Exceeds(last.current, last.incoming, last.quota)
     /\ (last.outcome = "QuotaExceeded") => last.current = folder_size_bytes(last.user)

\* C2 (step): the rejecting call writes no file besides the catalog file that
\* ensure_items_db creates or gives its schema, and changes no catalog.
C2_Frame ==
  (op = Idle /\ last'.op = "ingest_to_inbox" /\ last'.outcome = "QuotaExceeded") =>
     /\ items' = items
     /\ op' = Idle
     /\ \A u \in Users : DOMAIN files'[u] \ {items_db_path} = DOMAIN files[u] \ {items_db_path}
     /\ \A u \in Users : \A p \in DOMAIN files[u] \ {items_db_path} : files'[u][p] = files[u][p]

\* C2: the quota check passes exactly when current + incoming <= quota; a
\* rejected ingest carries (current, incoming, quota), writes no file and
\* inserts no row.
C2_QuotaBoundary == [][C2_Check' /\ C2_Frame]_vars

\* 4 GiB in the folder, 1 GiB + 1 byte offered: rejected with that triple
C2_Witness ==
  /\ last.op = "ingest_to_inbox" /\ last.outcome = "QuotaExceeded"
  /\ last.current = Bytes(4, 0) /\ last.incoming = Bytes(1, 1) /\ last.quota = Bytes(5, 0)

\* 4 GiB in the folder, exactly 1 GiB offered: accepted
C2_AcceptedAtBoundary ==
  /\ last.op = "ingest_to_inbox" /\ last.outcome = "ok"
  /\ last.current = Bytes(4, 0) /\ last.incoming = Bytes(1, 0)

\* C3 as claimed: wherever delete_item stops, it leaves no catalog row whose
\* backing file is missing.
C3_NoDanglingRow ==
  (last.op = "delete_item" /\ last.outcome = "stopped" /\ op = Idle) =>
     (last.item_id \in DOMAIN items[last.user] =>
        items[last.user][last.item_id].stored_rel \in DOMAIN files[last.user])

\* C3 amended: delete_item removes the catalog row last: wherever it stops,
\* every file of the item still on disk has its catalog row, so what is left
\* is at worst a row whose file is missing, never a file without its row.
C3_RowRemovedLast ==
  (last.op = "delete_item" /\ last.outcome \in {"running", "stopped", "ok"}) =>
     (FilesOf(last.user, last.item_id) # {} => last.item_id \in DOMAIN items[last.user])

\* stopped between the unlink of the file and the removal of the row
C3_Witness ==
  /\ last.op = "delete_item" /\ last.outcome = "stopped" /\ op = Idle
  /\ last.item_id \in DOMAIN items[last.user]
  /\ items[last.user][last.item_id].stored_rel \notin DOMAIN files[last.user]

\* the rows and files a send leaves alone, and the one row it may add
C4_Frame ==
  (op.name = "send") =>
     /\ items'[op.user] = items[op.user]
     /\ op.row.stored_rel \in DOMAIN files'[op.user]
     /\ files'[op.user][op.row.stored_rel] = files[op.user][op.row.stored_rel]
     /\ DOMAIN items'[op.peer] \ DOMAIN items[op.peer] \subseteq {op.new_id}
     /\ \A i \in DOMAIN items[op.peer] \ {op.new_id} :
           items'[op.peer][i] = items[op.peer][i]
     /\ op.new_id \notin DOMAIN items[op.user]

\* the copy's provenance, kind and tags
C4_Copy(x, y) ==
  /\ y.item_id = last.new_id /\ y.item_id # x.item_id
  /\ y.kind = x.kind
  /\ y.tags_json = x.tags_json
  /\ y.origin_user = last.user /\ y.origin_item_id = last.item_id
  /\ y.origin_type = "copy"

\* C4 as claimed (state): after a successful send the destination holds the
\* new row, with the kind, original_name and tags_json of X.
C4_SameName ==
  (last.op = "send_item_copy" /\ last.outcome = "ok") =>
     /\ last.item_id \in DOMAIN items[last.user]
     /\ last.new_id \in DOMAIN items[last.peer]
     /\ C4_Copy(items[last.user][last.item_id], items[last.peer][last.new_id])
     /\ items[last.peer][last.new_id].original_name
          = items[last.user][last.item_id].original_name

\* C4 as claimed: one new destination row with the kind, original_name, tags
\* and provenance of X; source row and file unchanged.
C4_AsClaimed == [][C4_SameName' /\ C4_Frame]_vars

\* C4 amended (state): the copy's original_name is that of X, or, when X's is
\* empty, the file name of X's backing file.
C4_NameOrFileName ==
  (last.op = "send_item_copy" /\ last.outcome = "ok") =>
     /\ last.item_id \in DOMAIN items[last.user]
     /\ last.new_id \in DOMAIN items[last.peer]
     /\ LET x == items[last.user][last.item_id]
            y == items[last.peer][last.new_id]
        IN  /\ C4_Copy(x, y)
            /\ x.original_name # <<>> => y.original_name = x.original_name
            /\ x.original_name = <<>> => y.original_name = FileName(x.stored_rel)

\* C4 amended: a successful send adds exactly one destination row with a
\* fresh id, the kind, tags_json and provenance of the claim, and X's
\* original_name unless that is empty; source row and file are unchanged.
C4_SendCopies == [][C4_NameOrFileName' /\ C4_Frame]_vars

\* a copy of an item whose original_name is empty
C4_Witness ==
  /\ last.op = "send_item_copy" /\ last.outcome = "ok"
  /\ last.item_id \in DOMAIN items[last.user]
  /\ items[last.user][last.item_id].original_name = <<>>
  /\ last.new_id \in DOMAIN items[last.peer]

\* C5: when the append to the send log fails after the destination row was
\* inserted, send_item_copy still succeeds and returns the new item id.
C5_LogFailureTolerated ==
  (op = Idle /\ last.op = "send_item_copy" /\ last.fault = "_append_send_log") =>
     /\ last.outcome = "ok"
     /\ last.new_id \in DOMAIN items[last.peer]

----------------------------------------------------------------------------
(* Properties of the query and of the last-viewed store *)

\* the fragment of the last query_items_page call
LastWhere == build_where_and_params(FilterRequests[last.req])

\* C6: the total comes from the items table alone: with an existing catalog
\* and a fragment on the items' columns, query_items_page returns the count
\* of the matching items also when last_viewed.db is corrupt or has another
\* schema.
C6_TotalDespiteLvDamage ==
  (/\ last.op = "query_items_page"
   /\ lvStatus[last.user] \in LvDamages
   /\ HasItemsTable(files[last.user])
   /\ CountResolves(LastWhere.where_sql))
  => /\ last.outcome = "ok"
     /\ last.total = CountTotal(items[last.user], LastWhere.where_sql, LastWhere.params)

\* C7: for every fragment of the builder, those with last-viewed conditions
\* included, the total of query_items_page is the number of rows of the page
\* with offset 0 and a limit above the table's size.
C7_TotalIsFullPageLength ==
  (/\ last.op = "query_items_page"
   /\ lvStatus[last.user] = "ok"
   /\ HasItemsTable(files[last.user])
   /\ last.offset = 0
   /\ last.limit > Cardinality(DOMAIN items[last.user]))
  => /\ last.outcome = "ok"
     /\ last.total = Len(last.rows)

\* the user has a last_viewed row for the item
ViewedBy(u, sub, i) == \E r \in lvRows[u] : r.user_sub = sub /\ r.item_id = i

\* the item is in the page the last call returned
Returned(i) == last.outcome = "ok" /\ \E n \in DOMAIN last.rows : last.rows[n].item_id = i

\* C8: the whole list asked with only a last-viewed mode: an item without a
\* last_viewed row of the user is returned under "unviewed only" and not under
\* "date range", an item with such a row is not returned under "unviewed only".
C8_UnviewedFilter ==
  (/\ last.op = "query_items_page"
   /\ lvStatus[last.user] = "ok"
   /\ HasItemsTable(files[last.user])
   /\ last.offset = 0
   /\ last.limit > Cardinality(DOMAIN items[last.user]))
  => \A i \in DOMAIN items[last.user] :
       LET viewed == ViewedBy(last.user, last.peer, i)
       IN  /\ (last.req = 2 /\ ~viewed) => Returned(i)
           /\ (last.req = 2 /\ viewed) => ~Returned(i)
           /\ (last.req = 3 /\ ~viewed) => ~Returned(i)

\* the rows of the key in u's table
KeyRows(u, sub, i) == {r \in lvRows[u] : r.user_sub = sub /\ r.item_id = i}

OneRowPerKey ==
  \A u \in Users : \A r1, r2 \in lvRows[u] :
     (r1.user_sub = r2.user_sub /\ r1.item_id = r2.item_id) => r1 = r2

\* the later of two timestamps
Latest(a, b) == IF TextLess(a, b) THEN b ELSE a

\* C9 as stated: at most one row per (user_sub, item_id), and an upsert on
\* a key that held another timestamp leaves the key's one row with the
\* later of the two timestamps and the kind of this call.
C9_KeepsLatest ==
  /\ OneRowPerKey
  /\ (/\ last.op = "upsert_last_viewed" /\ last.outcome = "ok"
      /\ lvStatus[last.user] = "ok"
      /\ last.was # <<>> /\ last.was # last.at)
     => KeyRows(last.user, last.user, last.item_id) =
          {LvRow(last.user, last.item_id, last.kind, Latest(last.was, last.at))}

\* C9 (amended): at most one row per (user_sub, item_id), and after a
\* successful upsert the key's one row carries the timestamp and the kind of
\* that call, whether the timestamp it held before was earlier or later.
C9_KeepsLastCall ==
  /\ OneRowPerKey
  /\ (/\ last.op = "upsert_last_viewed" /\ last.outcome = "ok"
      /\ lvStatus[last.user] = "ok")
     => KeyRows(last.user, last.user, last.item_id) =
          {LvRow(last.user, last.item_id, last.kind, last.at)}

\* the key held day 2 and pdf, the call brought day 1 and image
C9_Witness ==
  /\ last.op = "upsert_last_viewed" /\ last.outcome = "ok"
  /\ last.was = Iso(2) /\ last.at = Iso(1) /\ last.kind = "image"
  /\ KeyRows(last.user, last.user, last.item_id) =
       {LvRow(last.user, last.item_id, "image", Iso(1))}
  /\ Cardinality(lvRows[last.user]) = 2

NoBlankTimestamp ==
  \A u \in Users : \A r \in lvRows[u] : Strip(r.last_viewed_at) # <<>>

\* a step that is an upsert_last_viewed call with None, "" or blanks
BlankUpsert ==
  /\ last' # last
  /\ last'.op = "upsert_last_viewed"
  /\ Strip(last'.at) = <<>>

\* C10: upsert_last_viewed with a None, empty or whitespace-only timestamp
\* raises ValueError and leaves every last_viewed table as it was, and no
\* row holds an empty or blank last_viewed_at.
C10_BlankRejected ==
  [][/\ NoBlankTimestamp'
     /\ BlankUpsert => (last'.outcome = "ValueError" /\ UNCHANGED <<lvRows, lvStatus, files>>)]_vars

\* a whitespace-only timestamp was refused on a table that holds rows
C10_Witness ==
  /\ last.op = "upsert_last_viewed" /\ last.outcome = "ValueError"
  /\ last.at = <<" ">>
  /\ lvRows[last.user] # {}

----------------------------------------------------------------------------
(* Properties of previews, deletion and thumbnails *)

\* a step that is a render_preview call
PreviewStep == last' # last /\ last'.op = "render_preview"

\* C11: the last_viewed table is written only when the preview was rendered:
\* a render_preview call that ends without displaying the item (file
\* missing, reader or converter failing, kind without preview) leaves the
\* table unchanged.
C11_ViewedOnlyWhenShown ==
  [][(PreviewStep /\ last'.outcome # "displayed") => UNCHANGED lvRows]_vars

\* the keys of a last_viewed table
Keys(rows) == {<<r.user_sub, r.item_id>> : r \in rows}

\* C12: no step of ingest, send, view or delete removes a (user_sub,
\* item_id) key from a last_viewed table; a finished delete_item leaves the
\* deleted item's row where it was.
C12_KeysNeverShrink ==
  [][\A u \in Users : Keys(lvRows[u]) \subseteq Keys(lvRows'[u])]_vars

\* the item was viewed and then deleted: its row is gone from the catalog
\* and still in last_viewed
C12_Witness ==
  /\ op = Idle /\ last.op = "delete_item" /\ last.outcome = "ok"
  /\ last.item_id \notin DOMAIN items[last.user]
  /\ <<last.user, last.item_id>> \in Keys(lvRows[last.user])

\* a step that ends a delete_item call with (True, ...)
DeleteDone == op.name = "delete" /\ op' = Idle /\ last'.outcome = "ok"

\* a step that is a delete_item call for an id the catalog does not hold
DeleteAgain ==
  /\ op = Idle /\ op' = Idle /\ last' # last /\ last'.op = "delete_item"
  /\ HasItemsTable(files[last'.user])
  /\ last'.item_id \notin DOMAIN items[last'.user]

\* C13: a successful delete_item leaves neither the row nor the backing file
\* nor the recorded thumbnail of the id; a backing file that was already
\* missing does not make it fail; delete_item on an id the catalog no longer
\* holds reports not-found and changes neither catalog nor files.
C13_DeleteIsFinal ==
  [][/\ DeleteDone => /\ op.item_id \notin DOMAIN items'[op.user]
                      /\ op.row.stored_rel \notin DOMAIN files'[op.user]
                      /\ op.row.thumb_rel \notin DOMAIN files'[op.user]
     /\ (op' = Idle /\ last'.op = "delete_item" /\ last'.fault = "backing file missing")
           => last'.outcome \in {"ok", "stopped"}
     /\ DeleteAgain => (last'.outcome = "not found" /\ UNCHANGED <<items, files>>)]_vars

\* the delete of an image whose backing file was gone before: it succeeded,
\* and no file of the item is left
C13_Witness ==
  /\ op = Idle /\ last.op = "delete_item" /\ last.outcome = "ok"
  /\ last.fault = "backing file missing"
  /\ last.item_id \notin DOMAIN items[last.user]
  /\ FilesOf(last.user, last.item_id) = {}
  /\ \E r \in lvRows[last.user] : r.item_id = last.item_id /\ r.kind = "image"

\* delete_item asked again for an item that was viewed and deleted
C13_SecondDelete ==
  /\ op = Idle /\ last.op = "delete_item" /\ last.outcome = "not found"
  /\ \E r \in lvRows[last.user] : r.item_id = last.item_id /\ r.kind = "other"

\* a step that is a call of update_thumb from outside ingest, send and
\* ensure_thumb_for_item
UpdateThumbStep == op = Idle /\ op' = Idle /\ last'.op = "update_thumb"

\* a step that is a call of ensure_thumb_for_item on a row of the catalog
EnsureStep == op = Idle /\ op' = Idle /\ last'.op = "ensure_thumb_for_item"

NoThumb(row) == row.thumb_status = "none" /\ row.thumb_rel = NoPath

NonImageNone(cat) ==
  \A u \in Users : \A i \in DOMAIN cat[u] : cat[u][i].kind # "image" => NoThumb(cat[u][i])

C15_ReturnsRecordedStatus ==
  [][EnsureStep => /\ last'.outcome \in {"none", "ok", "failed"}
                   /\ items'[last'.user][last'.item_id].thumb_status = last'.outcome]_vars

\* C16: when no call is in progress, in a run where no delete_item was cut
\* short (every other step succeeds or fails as the fault model allows), each
\* row's stored_rel is an existing file of its user and no two rows of a
\* catalog share a stored_rel.
C16_RowsHaveDistinctFiles ==
  op = Idle =>
    \A u \in Users :
      /\ \A i \in DOMAIN items[u] : items[u][i].stored_rel \in DOMAIN files[u]
      /\ \A i, j \in DOMAIN items[u] :
           items[u][i].stored_rel = items[u][j].stored_rel => i = j

\* alice ingested an item and sent it to bob, bob deleted the copy: alice's
\* row and file are still there
C16_Witness ==
  /\ op = Idle /\ last.op = "delete_item" /\ last.outcome = "ok" /\ last.user = "bob"
  /\ sendLog # <<>> /\ items["bob"] = <<>>
  /\ \E i \in DOMAIN items["alice"] : items["alice"][i].stored_rel \in DOMAIN files["alice"]

-----------------------------------------------------------------------------
(* Properties of the update helpers, of concurrent ingests, of the schema  *)
(* and of the kind filter                                                  *)

Columns == DOMAIN NoRow

\* the columns no update may touch
Identity(row) ==
  <<row.item_id, row.kind, row.stored_rel, row.added_at, row.size_bytes,
    row.origin_user, row.origin_item_id, row.origin_type>>

\* a step that is one whole call of the named helper
CallOf(name) == op = Idle /\ op' = Idle /\ last'.op = name

\* the step changed at most the columns cols of the row the call addressed
OnlyChanged(cols) ==
  \A u \in Users :
    /\ DOMAIN items'[u] = DOMAIN items[u]
    /\ \A i \in DOMAIN items[u] :
         IF u = last'.user /\ i = last'.item_id
         THEN \A c \in Columns \ cols : items'[u][i][c] = items[u][i][c]
         ELSE items'[u][i] = items[u][i]

\* C17: no step of ingest, send, update_item_tag_single, update_item_note,
\* update_thumb or ensure_thumb_for_item removes a row or changes its item_id,
\* kind, stored_rel, added_at, size_bytes or origin columns; and each update
\* helper changes only its own columns of the row it addresses, and no other
\* row.
C17_UpdatesKeepIdentity ==
  [][/\ \A u \in Users : \A i \in DOMAIN items[u] :
          i \in DOMAIN items'[u] /\ Identity(items'[u][i]) = Identity(items[u][i])
     /\ CallOf("update_item_tag_single") => OnlyChanged({"tags_json"})
     /\ CallOf("update_item_note") => OnlyChanged({"note"})
     /\ CallOf("update_thumb") => OnlyChanged({"thumb_rel", "thumb_status"})
     /\ CallOf("ensure_thumb_for_item") => OnlyChanged({"thumb_rel", "thumb_status"})]_vars

\* one of two rows of a catalog got a note and, last, a new tag; the other
\* row has neither
C17_Witness ==
  /\ last.op = "update_item_tag_single"
  /\ \E i, j \in DOMAIN items[last.user] :
       /\ i = last.item_id /\ j # i
       /\ items[last.user][i].tags_json = <<"[", "\"", "\\", "\"", "u", "\"", "]">>
       /\ items[last.user][i].note = <<"n">>
       /\ items[last.user][j].note = <<>>
       /\ items[last.user][j].tags_json # items[last.user][i].tags_json

\* the quota check of one process, as a step: c is its call in progress
\* before the step, resNext its result record after it.  What it counted is
\* what lies on disk, and it passes exactly when that plus the incoming data
\* fits the quota.
ChecksDiskOnly(c, res, resNext) ==
  (c = Idle /\ resNext # res /\ resNext.op = "ingest_to_inbox") =>
     /\ resNext.current = SumSizes(files'[resNext.user], DOMAIN files'[resNext.user])
     /\ (resNext.outcome = "running")
          <=> ~Exceeds(resNext.current, resNext.incoming, resNext.quota)

\* C18: the quota check of an ingest counts only the files on disk, whatever
\* another ingest of the same user has in progress: nothing is reserved and
\* nothing waits.  (C18_Witness is the interleaving the claim speaks of.)
C18_NoLockOnQuota ==
  [][ChecksDiskOnly(op, last, last') /\ ChecksDiskOnly(other, otherLast, otherLast')]_vars

\* two ingests of one user have both passed the quota check and both
\* completed; the data of their two rows alone is above the quota
C18_Witness ==
  /\ op = Idle /\ other = Idle
  /\ last.op = "ingest_to_inbox" /\ last.outcome = "ok"
  /\ otherLast.op = "ingest_to_inbox" /\ otherLast.outcome = "ok"
  /\ last.user = otherLast.user /\ last.new_id # otherLast.new_id
  /\ ~Exceeds(last.current, last.incoming, last.quota)
  /\ ~Exceeds(otherLast.current, otherLast.incoming, otherLast.quota)
  /\ {last.new_id, otherLast.new_id} \subseteq DOMAIN items[last.user]
  /\ BGt(BAdd(items[last.user][last.new_id].size_bytes,
              items[last.user][otherLast.new_id].size_bytes), last.quota)
  /\ BGt(folder_size_bytes(last.user), quota_bytes_for_user(last.user))

\* the first n values of every row
RowsCut(rows, n) == [k \in DOMAIN rows |-> SubSeq(rows[k], 1, n)]

\* C19: a call of ensure_items_db on an existing table keeps every column it
\* finds, in place and as declared, appends exactly the missing ones of the
\* newer columns as the code declares them, keeps the number of rows and every
\* value of every row, and shows the default in each new column; a second
\* call changes nothing.
C19_EnsureAddsMissingOnly ==
  [][(legacy'.calls = legacy.calls + 1) =>
       LET n == Len(legacy.cols)
           added == SubSeq(legacy'.cols, n + 1, Len(legacy'.cols))
       IN  /\ legacy.exists =>
                /\ SubSeq(legacy'.cols, 1, n) = legacy.cols
                /\ added = Keep(NewerColumns, ColumnNames(NewerColumns) \ ColumnNames(legacy.cols))
                /\ Len(legacy'.rows) = Len(legacy.rows)
                /\ RowsCut(legacy'.rows, n) = legacy.rows
                /\ \A k \in DOMAIN legacy'.rows : \A c \in DOMAIN added :
                      legacy'.rows[k][n + c] = added[c].dflt_value
           /\ legacy.calls >= 1 => legacy' = [legacy EXCEPT !.calls = @ + 1]
           /\ ColumnNames(BaseColumns \o NewerColumns) \subseteq ColumnNames(legacy'.cols)]_vars

\* a table with a row that had an old note column and origin_user and lacked
\* tags_json: after two calls the old note column and its value are as they
\* were, tags_json is the last column and the row reads its default there
C19_Witness ==
  /\ legacy.calls = 2 /\ Len(legacy.rows) = 1
  /\ legacy.cols[7] = OldNote /\ legacy.rows[1][7] = "7"
  /\ \E k \in 8..(Len(legacy.cols) - 1) : legacy.cols[k] = NewerColumns[6]
  /\ legacy.cols[Len(legacy.cols)] = NewerColumns[2]
  /\ legacy.rows[1][Len(legacy.cols)] = "'[]'"

\* filter requests with no kind checked and every combination of the other
\* filters
EmptyKindRequests ==
  { FilterRequest(<<>>, tags, <<>>, day, day, sm, Bytes(0, 1), Bytes(5, 0),
                  lvm, 1, 1, Iso(1)) :
      tags \in {<<>>, << <<"t">> >>}, day \in {NoDate, 1},
      sm \in {"", SizeAtLeast, SizeAtMost, SizeRange},
      lvm \in {LvAll, LvUnviewedOnly, LvDateRange, LvRecent} }

EmptyKindFragments == {build_where_and_params(r) : r \in EmptyKindRequests}

\* C20: the fragment build_where_and_params returns for an empty kinds_checked
\* holds of no item of any catalog, joined with any last-viewed rows, whatever
\* the other filters are.
C20_EmptyKindsMatchNothing ==
  \A b \in EmptyKindFragments : \A u \in Users, sub \in Users :
    \A j \in Joined(items[u], lvRows[u], sub) : ~Holds(b.where_sql, b.params, j.it, j.lv)

\* the page asked with no kind checked came back empty from a catalog that
\* holds items, viewed ones among them
C20_Witness ==
  /\ last.op = "query_items_page" /\ last.req = 7 /\ last.outcome = "ok"
  /\ last.total = 0 /\ last.rows = <<>>
  /\ items[last.user] # <<>>
  /\ \E r \in lvRows[last.user] : r.item_id \in DOMAIN items[last.user]

-----------------------------------------------------------------------------
(* Properties of the functions called on their own *)

(* C21: split_terms_and splits on white space, commas and slashes, each with
   its full-width variant: every returned term is non-empty and holds no
   delimiter, and the terms are the maximal delimiter-free pieces of the input
   in input order. *)

Delimiters == {" ", "\t", "\n", "U+3000", ",", "U+FF0C", "/", "U+FF0F"}

\* the maximal pieces of s that hold no character of ds, in order
RECURSIVE MaximalPieces(_, _, _)
MaximalPieces(s, ds, piece) ==
  IF s = <<>> THEN (IF piece = <<>> THEN <<>> ELSE <<piece>>)
  ELSE IF Head(s) \in ds
       THEN (IF piece = <<>> THEN <<>> ELSE <<piece>>) \o MaximalPieces(Tail(s), ds, <<>>)
       ELSE MaximalPieces(Tail(s), ds, Append(piece, Head(s)))

C21_TermsAreMaximalPieces ==
  ret # <<>> =>
    /\ \A k \in DOMAIN ret[1] : ret[1][k] # <<>> /\ \A i \in DOMAIN ret[1][k] : ret[1][k][i] \notin Delimiters
    /\ ret[1] = MaximalPieces(arg, Delimiters, <<>>)

(* C22: detect_kind returns, for a name that ends in an extension of the
   classification table in any letter case, the kind the table gives (other
   for .xls), for any other name other, and always one of the seven kinds. *)

\* the name is a non-empty stem followed by the extension e in some letter case
EndsIn(name, e) ==
  /\ Len(name) > Len(e)
  /\ Lower(SubSeq(name, Len(name) - Len(e) + 1, Len(name))) = e

KindOfExt(e) ==
  CASE e \in {<<".","p","d","f">>} -> "pdf"
    [] e \in {<<".","d","o","c","x">>, <<".","d","o","c">>} -> "word"
    [] e \in {<<".","x","l","s","x">>, <<".","x","l","s","m">>, <<".","c","s","v">>, <<".","t","s","v">>} -> "excel"
    [] e \in {<<".","x","l","s">>} -> "other"
    [] e \in {<<".","p","p","t","x">>, <<".","p","p","t">>} -> "ppt"
    [] e \in {<<".","t","x","t">>, <<".","m","d">>, <<".","l","o","g">>, <<".","j","s","o","n">>, <<".","t","e","x">>} -> "text"
    [] OTHER -> "image"

C22_DetectKindTotal ==
  ret # <<>> =>
    /\ ret[1] \in Kinds
    /\ \A e \in ListedExts : EndsIn(arg, e) => ret[1] = KindOfExt(e)
    /\ (\A e \in ListedExts : ~EndsIn(arg, e)) => ret[1] = "other"

C22_Witness ==
  /\ ret = <<"excel">>
  /\ arg = <<"a",".","b",".","X","l","S","m">>

(* C23: the fragment build_where_and_params returns has as many ? placeholders
   as the parameter list has entries, the i-th placeholder bound to the i-th
   parameter in the order kinds, tags, names, dates, size, last-viewed; the
   count statement and the page statement of query_items_page keep this, the
   page statement with the user in front and limit and offset behind. *)

\* the position of a condition's filter in the declared order
FilterRank(c) ==
  CASE c.alias = "lv" -> 6
    [] c.col = "kind" -> 1
    [] c.col = "tags_json" -> 2
    [] c.col = "original_name" -> 3
    [] c.col = "added_at" -> 4
    [] c.col = "size_bytes" -> 5
    [] OTHER -> 0

\* the parameter v is one the request r gives for a placeholder of condition c
BelongsTo(v, c, r) ==
  CASE c.alias = "lv" /\ c.test = ">=" ->
         \/ r.lv_mode = LvDateRange /\ r.lv_from # NoDate /\ v = TextValue(Iso(r.lv_from))
         \/ r.lv_mode = LvRecent /\ r.lv_since_iso # <<>> /\ v = TextValue(r.lv_since_iso)
    [] c.alias = "lv" /\ c.test = "<" -> r.lv_to # NoDate /\ v = TextValue(Iso(r.lv_to + 1))
    [] c.col = "kind" -> \E i \in DOMAIN r.kinds_checked : v = StrValue(r.kinds_checked[i])
    [] c.col = "tags_json" -> \E i \in DOMAIN r.tag_terms : v = TextValue(<<"%">> \o r.tag_terms[i] \o <<"%">>)
    [] c.col = "original_name" -> \E i \in DOMAIN r.name_terms : v = TextValue(<<"%">> \o r.name_terms[i] \o <<"%">>)
    [] c.col = "added_at" /\ c.test = ">=" -> r.added_from # NoDate /\ v = TextValue(Iso(r.added_from))
    [] c.col = "added_at" /\ c.test = "<" -> r.added_to # NoDate /\ v = TextValue(Iso(r.added_to + 1))
    [] c.col = "size_bytes" /\ c.test = ">=" -> r.size_min_bytes # NoBytes /\ v = IntValue(r.size_min_bytes)
    [] c.col = "size_bytes" /\ c.test = "<=" -> r.size_max_bytes # NoBytes /\ v = IntValue(r.size_max_bytes)
    [] c.col = "user_sub" -> v = StrValue(arg.sub)
    [] c.col = "LIMIT" -> v = IntValue(Bytes(0, arg.limit))
    [] c.col = "OFFSET" -> v = IntValue(Bytes(0, arg.offset))
    [] OTHER -> FALSE

\* a statement's placeholders and parameters correspond one to one
Aligned(st, r) ==
  /\ Len(st.placeholders) = Len(st.args)
  /\ \A i \in DOMAIN st.placeholders : BelongsTo(st.args[i], st.placeholders[i], r)

C23_PlaceholdersMatchParams ==
  ret # <<>> =>
    LET b == ret[1].built
        ph == Placeholders(b.where_sql)
    IN  /\ Aligned([placeholders |-> ph, args |-> b.params], arg.req)
        /\ \A i, j \in DOMAIN ph : i < j => FilterRank(ph[i]) <= FilterRank(ph[j])
        /\ Aligned(ret[1].count, arg.req)
        /\ Aligned(ret[1].page, arg.req)
        /\ ret[1].page.placeholders[1].col = "user_sub"
        /\ ret[1].page.placeholders[Len(ret[1].page.placeholders)].col = "OFFSET"

C23_Witness ==
  /\ ret # <<>>
  /\ Len(ret[1].built.params) = 9
  /\ Len(ret[1].page.args) = 12

(* C24: under sort mode viewed, query_items_page lists the items the user has
   viewed before those the user has not, the viewed ones by descending
   last_viewed_at, ties by descending added_at; the page for (limit, offset)
   is the slice [offset, offset + limit) of that order. *)

\* the row of item i of u's catalog as user sub sees it
SeenRow(u, sub, i) ==
  LET m == {r \in lvRows[u] : r.user_sub = sub /\ r.item_id = i}
  IN  [item_id |-> i, original_name |-> items[u][i].original_name, added_at |-> items[u][i].added_at,
       viewed |-> m # {},
       last_viewed |-> IF m = {} THEN <<>> ELSE (CHOOSE r \in m : TRUE).last_viewed_at]

\* row a may stand before row b in the viewed order
MayPrecede(a, b) ==
  \/ a.viewed /\ ~b.viewed
  \/ /\ a.viewed = b.viewed
     /\ \/ TextLess(b.last_viewed, a.last_viewed)
        \/ a.last_viewed = b.last_viewed /\ ~TextLess(a.added_at, b.added_at)

\* the sequences that list every item of u once in the viewed order
ViewedOrders(u, sub) ==
  {s \in [1..Cardinality(DOMAIN items[u]) -> {SeenRow(u, sub, i) : i \in DOMAIN items[u]}] :
     /\ \A i, j \in DOMAIN s : i # j => s[i] # s[j]
     /\ \A i, j \in DOMAIN s : i < j => MayPrecede(s[i], s[j])}

\* a step that is a call of query_items_page: no other step leaves the clock,
\* the catalog and the last_viewed rows alone and the last_viewed file sound
ViewedQuery ==
  /\ CallOf("query_items_page")
  /\ UNCHANGED <<now, items, lvRows>>
  /\ lvStatus'[last'.user] = "ok"
  /\ last'.outcome = "ok"
  /\ last'.req = 1
  /\ Lower(Strip(last'.at)) = <<"v","i","e","w","e","d">>

C24_ViewedOrderSliced ==
  [][ViewedQuery =>
       \E s \in ViewedOrders(last'.user, last'.peer) :
         /\ Len(last'.rows) = IF last'.offset + last'.limit <= Len(s) THEN last'.limit
                              ELSE IF last'.offset <= Len(s) THEN Len(s) - last'.offset ELSE 0
         /\ \A k \in DOMAIN last'.rows : last'.rows[k] = s[last'.offset + k]]_vars

C24_Witness ==
  /\ last.op = "query_items_page"
  /\ last.outcome = "ok"
  /\ last.at = SortViewed
  /\ last.offset = 1
  /\ Len(last.rows) = 1
  /\ ~last.rows[1].viewed
  /\ \E i \in DOMAIN items[last.user] :
       /\ SeenRow(last.user, last.peer, i).viewed
       /\ TextLess(items[last.user][i].added_at, last.rows[1].added_at)

(* C25: for every input name, safe_filename returns a string of at most
   max_len characters that holds none of the characters / \ : * ? " < > |. *)

C25_CappedAndClean ==
  ret # <<>> =>
    /\ Len(ret[1]) <= arg.max_len
    /\ \A i \in DOMAIN ret[1] : ret[1][i] \notin {"/", "\\", ":", "*", "?", "\"", "<", ">", "|"}

(* C26: ensure_last_viewed_db changes nothing on a conforming database, and
   on an existing table last_viewed that lacks one of the required columns
   user_sub, item_id, kind, last_viewed_at it fails with RuntimeError naming
   the missing column, and adds, renames or drops no column. *)

Conforming(t) ==
  /\ t.exists
  /\ LvRequired \subseteq ColumnNames(t.cols)
  /\ t.indexes = {LvIndexes[k].name : k \in DOMAIN LvIndexes}

LacksOne(t) == t.exists /\ Cardinality(LvRequired \ ColumnNames(t.cols)) = 1

C26_MissingColumnReported ==
  [][(legacy'.calls = legacy.calls + 1) =>
       /\ Conforming(legacy) =>
            ret'[1].outcome = "ok" /\ legacy' = [legacy EXCEPT !.calls = legacy.calls + 1]
       /\ LacksOne(legacy) =>
            /\ ret'[1].outcome = "RuntimeError"
            /\ ret'[1].missing = LvRequired \ ColumnNames(legacy.cols)
            /\ legacy'.cols = legacy.cols]_vars

-----------------------------------------------------------------------------
(* Properties of the session sampler *)

(* C27: however many calls of maybe_sample_minute fall into one minute bucket,
   one after the other or at the same time, a user's active_minutes is raised
   at most once for that bucket. *)

\* the active_minutes of the user's row of user_app_daily, 0 with no row
ActiveMinutes(u) ==
  LET rows == {r \in sess.user_app_daily : r.user_sub = u /\ r.app_name = AppName}
  IN  IF rows = {} THEN 0 ELSE (CHOOSE r \in rows : TRUE).active_minutes

RECURSIVE Sum(_, _)
Sum(f, keys) ==
  IF keys = {} THEN 0 ELSE LET k == CHOOSE k \in keys : TRUE IN f[k] + Sum(f, keys \ {k})

C27_AtMostOncePerBucket ==
  /\ \A k \in DOMAIN sess.credits : sess.credits[k] <= 1
  /\ \A u \in Users : ActiveMinutes(u) = Sum(sess.credits, {k \in DOMAIN sess.credits : k[1] = u})

C27_Witness ==
  /\ \E p \in Runs : sess.calls[p].pc = "listed" /\ sess.calls[p].user_list = {"alice"} /\ floor_to_minute(sess.calls[p].now) = 0
  /\ sess.credits[<<"alice", 0>>] = 1

(* C28: every user some call of maybe_sample_minute lists as active in a
   minute bucket has active_minutes raised by 1 for that bucket, also a user who
   becomes active after the bucket's first sample. *)

C28_ObservedIsCredited ==
  (\A p \in Runs : sess.calls[p].pc = "idle") =>
    \A k \in sess.observed : sess.credits[k] = 1

-----------------------------------------------------------------------------
(* Properties of the file picker *)

(* C29: when the stored page index lies beyond the last page while matching
   items exist, a run of the picker sets the index to the last page and shows
   that page's rows; it does not report that there are no files. *)

PickerRun ==
  /\ CallOf("inbox_file_picker")
  /\ UNCHANGED <<now, items, files>>
  /\ last'.outcome # "rerun"

LastPageOf(u, kindsNo) == (Cardinality(Matching(u, PickerKinds[kindsNo])) - 1) \div PageSize

BeyondLastPage(u, kindsNo) ==
  /\ HasItemsTable(files[u])
  /\ Matching(u, PickerKinds[kindsNo]) # {}
  /\ session_state.page > LastPageOf(u, kindsNo)

C29_BeyondLastPageCorrected ==
  [][(PickerRun /\ BeyondLastPage(last'.user, last'.req)) =>
       /\ session_state'.page = LastPageOf(last'.user, last'.req)
       /\ last'.outcome = "listed"
       /\ last'.offset = LastPageOf(last'.user, last'.req) * PageSize
       /\ last'.rows # <<>>]_vars

-----------------------------------------------------------------------------
(* Properties of the quota *)

(* C30: with the ingests of a user running one at a time, the usage of the
   user's root as folder_size_bytes measures it (stored files, thumbnails and
   catalog databases together) is at most the quota when an ingest returns
   its IngestResult. *)

IngestReturns ==
  /\ op.name = "ingest" /\ op.pc = "thumb"
  /\ op' = Idle
  /\ last'.op = "ingest_to_inbox" /\ last'.outcome = "ok"

UsageAfter(u) == SumSizes(files'[u], DOMAIN files'[u])

C30_WithinQuotaAfterIngest ==
  [][IngestReturns => ~BGt(UsageAfter(op.user), quota_bytes_for_user(op.user))]_vars

====
